---- MODULE Spec2Model ----
(***************************************************************************)
(* Model of "HTML Tables/tables.cpp": a grid (CTable) of polymorphic cells  *)
(* (CEmpty, CText, CImage, CTableCell) held through shared_ptr, with deep   *)
(* copy, cell replacement, comparison and rendering to bordered text.       *)
(*                                                                          *)
(* Objects live in a heap so that aliasing is visible: `tables` maps a      *)
(* table object to its fields, `cells` maps a cell object (the pointee of a *)
(* shared_ptr<CBase>) to its fields, `vars` maps the caller's local CTable  *)
(* variables to their objects.  A std::string is a sequence of one-char     *)
(* strings; a vector<string> is a sequence of those.  Indices of the C++    *)
(* API are 0-based; sequences here are 1-based.                             *)
(***************************************************************************)
EXTENDS Integers, Sequences, FiniteSets, TLC

VARIABLES
    vars,     \* the caller's CTable variables: name -> table object (Null: not constructed)
    tables,   \* table object -> [Rows, Cols, Cells], Cells a grid of cell objects
    cells,    \* cell object -> its fields (see CellObj)
    crashed,  \* the process was killed (an invalid memory access)
    lastOp,   \* the operation performed last, its arguments and what it yielded
    origin,   \* name -> the variable it was copy-constructed from ("" : none)
    snaps     \* the tables embedded by setCell(row, col, table) and still in place

allVars == <<vars, tables, cells, crashed, lastOp, origin, snaps>>

\* ------------------------------------------------------------------ bounds

\* Most CTable objects (named and embedded) alive at once.
MaxTables == 3
\* Most cell objects alive at once.
MaxCells == 3
\* Width of size_t, scaled down so that wrap-around stays computable.
SizeBits == 12

\* The caller's CTable variables (main's t0, t1).
Names == {"t0", "t1"}
NameOrder == <<"t0", "t1">>

\* nullptr / a variable whose object is not constructed.
Null == 0

\* ----------------------------------------------------------------- strings

NL == "\n"

Max(a, b) == IF a >= b THEN a ELSE b

\* string(n, ch)
Rep(n, ch) == [i \in 1..n |-> ch]

\* s.substr(0, n)
Prefix(s, n) == SubSeq(s, 1, IF n <= Len(s) THEN n ELSE Len(s))

\* Index of the first '\n' of s, or 0.
FirstNL(s) == IF \E i \in 1..Len(s) : s[i] = NL
              THEN CHOOSE i \in 1..Len(s) : s[i] = NL /\ \A j \in 1..(i - 1) : s[j] # NL
              ELSE 0

\* The lines the loop `while (std::getline(iss, line))` yields on s: split at
\* '\n', terminators removed, no empty line after a trailing terminator.
RECURSIVE GetLines(_)

\* The lines of s, whose first '\n' is at index k (0: none).
SplitAt(s, k) ==
    IF k = 0 THEN <<s>>
    ELSE <<SubSeq(s, 1, k - 1)>> \o GetLines(SubSeq(s, k + 1, Len(s)))

GetLines(s) == IF Len(s) = 0 THEN <<>> ELSE SplitAt(s, FirstNL(s))

\* Concatenation of a sequence of strings.
RECURSIVE Concat(_)
Concat(ss) == IF ss = <<>> THEN <<>> ELSE Head(ss) \o Concat(Tail(ss))

\* Largest element of a sequence of naturals, 0 when empty (the std::max folds).
RECURSIVE MaxOf(_)
MaxOf(ns) == IF ns = <<>> THEN 0 ELSE Max(Head(ns), MaxOf(Tail(ns)))

\* size_t arithmetic: values wrap modulo 2^SizeBits.
SizeMod == 2 ^ SizeBits
ToSizeT(n) == n % SizeMod

\* max_size() of std::string and of a std::vector with elements of `elemSize`
\* bytes: PTRDIFF_MAX bytes at most.
StrMaxSize == SizeMod \div 2 - 1
VecMaxSize(elemSize) == (SizeMod \div 2 - 1) \div elemSize

\* What an operation yields when the library throws std::length_error.
LengthError == "length_error"

\* ---------------------------------------------------------------- contents

\* A cell object: the dynamic type (kind) and the fields of CText, CImage and
\* CTableCell; fields a kind does not have keep their defaults.
CellObj(kind, allLines, formatType, imageData, tableContent) ==
    [kind |-> kind, allLines |-> allLines, formatType |-> formatType,
     imageData |-> imageData, tableContent |-> tableContent]

\* CEmpty()
CEmpty == CellObj("CEmpty", <<>>, "ALIGN_LEFT", <<>>, Null)

\* CText::setText: the stored lines are the getline pieces of the text.
SetTextLines(text) == GetLines(text)

\* CText(text, format)
CText(text, format) == CellObj("CText", SetTextLines(text), format, <<>>, Null)

\* CImage().addRow(r1).addRow(r2)...
CImage(rows) == CellObj("CImage", <<>>, "ALIGN_LEFT", rows, Null)

\* A result of a computation that may throw: err is "none" or what was thrown.
Ok(v) == [err |-> "none", val |-> v]
Fail(e) == [err |-> e, val |-> <<>>]

\* CEmpty::Output, Width, Height
CEmptyOutput(height, width) == Rep(height, Rep(width, " "))

\* CText::Width, CText::Height
CTextWidth(c) == MaxOf([i \in 1..Len(c.allLines) |-> Len(c.allLines[i])])
CTextHeight(c) == Len(c.allLines)

\* The line CText::Output works on at index i (0-based).
CTextLine(c, i) == IF i < Len(c.allLines) THEN c.allLines[i + 1] ELSE <<>>

\* A pad count in signed arithmetic that stops at 0.
PadLenClamped(width, len) == IF width > len THEN width - len ELSE 0

\* The count passed to string(width - line.size(), ' '): unsigned subtraction.
PadLen(width, len) == ToSizeT(width - len)

\* A CText::Output that pads on the right whatever the alignment.
CTextOutputLeft(c, height, width) ==
    IF \E i \in 0..(height - 1) : PadLen(width, Len(CTextLine(c, i))) > StrMaxSize
    THEN Fail(LengthError)
    ELSE Ok([k \in 1..height |->
              CTextLine(c, k - 1) \o Rep(PadLen(width, Len(CTextLine(c, k - 1))), " ")])

\* CText::Output: string(n, ' ') throws std::length_error when n > max_size().
CTextOutput(c, height, width) ==
    IF \E i \in 0..(height - 1) : PadLen(width, Len(CTextLine(c, i))) > StrMaxSize
    THEN Fail(LengthError)
    ELSE Ok([k \in 1..height |->
              IF c.formatType = "ALIGN_LEFT"
              THEN CTextLine(c, k - 1) \o Rep(PadLen(width, Len(CTextLine(c, k - 1))), " ")
              ELSE Rep(PadLen(width, Len(CTextLine(c, k - 1))), " ") \o CTextLine(c, k - 1)])

\* CImage::Width, CImage::Height
CImageWidth(c) == IF c.imageData = <<>> THEN 0 ELSE Len(c.imageData[1])
CImageHeight(c) == Len(c.imageData)

\* s.replace(pos, n, str) for pos <= s.size()
Replace(s, pos, n, str) ==
    LET m == IF n <= Len(s) - pos THEN n ELSE Len(s) - pos
    IN  SubSeq(s, 1, pos) \o str \o SubSeq(s, pos + m + 1, Len(s))

\* An Output that lays every image row on the canvas whole, also where it
\* passes the right edge.
CImageOutputUncut(c, height, width) ==
    LET blank == Rep(width, " ")
        imgHeight == Len(c.imageData)
        imgWidth == Len(c.imageData[1])
        offsetY == IF height > imgHeight THEN (height - imgHeight) \div 2 ELSE 0
        offsetX == IF width > imgWidth THEN (width - imgWidth) \div 2 ELSE 0
    IN  IF c.imageData = <<>> \/ height = 0 \/ width = 0
        THEN Rep(height, blank)
        ELSE [y \in 1..height |->
                IF y - 1 >= offsetY /\ y - 1 - offsetY < imgHeight
                THEN Replace(blank, offsetX, Len(c.imageData[y - offsetY]), c.imageData[y - offsetY])
                ELSE blank]

\* An Output that rounds the centring offsets up instead of down.
CImageOutputCeil(c, height, width) ==
    LET blank == Rep(width, " ")
        imgHeight == Len(c.imageData)
        imgWidth == Len(c.imageData[1])
        offsetY == IF height > imgHeight THEN (height - imgHeight + 1) \div 2 ELSE 0
        offsetX == IF width > imgWidth THEN (width - imgWidth + 1) \div 2 ELSE 0
        Row(i) == LET imgLine == c.imageData[i + 1]
                  IN  IF offsetX + Len(imgLine) > width
                      THEN Replace(blank, offsetX, width - offsetX, Prefix(imgLine, width - offsetX))
                      ELSE Replace(blank, offsetX, Len(imgLine), imgLine)
    IN  IF c.imageData = <<>> \/ height = 0 \/ width = 0
        THEN Rep(height, blank)
        ELSE [y \in 1..height |->
                IF y - 1 >= offsetY /\ y - 1 - offsetY < imgHeight
                THEN Row(y - 1 - offsetY)
                ELSE blank]

\* CImage::Output: the image composited onto a blank canvas.
CImageOutput(c, height, width) ==
    LET blank == Rep(width, " ")
        imgHeight == Len(c.imageData)
        imgWidth == Len(c.imageData[1])
        offsetY == IF height > imgHeight THEN (height - imgHeight) \div 2 ELSE 0
        offsetX == IF width > imgWidth THEN (width - imgWidth) \div 2 ELSE 0
        Row(i) == LET imgLine == c.imageData[i + 1]
                  IN  IF offsetX + Len(imgLine) > width
                      THEN Replace(blank, offsetX, width - offsetX, Prefix(imgLine, width - offsetX))
                      ELSE Replace(blank, offsetX, Len(imgLine), imgLine)
    IN  IF c.imageData = <<>> \/ height = 0 \/ width = 0
        THEN Rep(height, blank)
        ELSE [y \in 1..height |->
                IF y - 1 >= offsetY /\ y - 1 - offsetY < imgHeight
                THEN Row(y - 1 - offsetY)
                ELSE blank]

\* The sizes of the lines of a text block.
LineLens(lines) == [i \in 1..Len(lines) |-> Len(lines[i])]

\* CTableCell::Width on the text `content` the embedded table printed.
TextBlockWidth(content) == MaxOf(LineLens(GetLines(content)))

\* A height that counts one more line after every '\n' (a trailing empty line
\* included).
TextBlockHeightSplit(content) == Cardinality({i \in 1..Len(content) : content[i] = NL}) + 1

\* CTableCell::Height on that text: newlines, plus one for an unterminated tail.
TextBlockHeight(content) ==
    Cardinality({i \in 1..Len(content) : content[i] = NL})
      + (IF content = <<>> \/ content[Len(content)] = NL THEN 0 ELSE 1)

\* Lines fitted with the spaces before the text instead of after it.
FitLinesRight(lines, height, width) ==
    [k \in 1..height |->
       IF k <= Len(lines)
       THEN IF Len(lines[k]) > width
            THEN Prefix(lines[k], width)
            ELSE Rep(width - Len(lines[k]), " ") \o lines[k]
       ELSE Rep(width, " ")]

\* The first `height` of `lines`, each cut or padded on the right to `width`,
\* then blank lines up to `height`.
FitLines(lines, height, width) ==
    [k \in 1..height |->
       IF k <= Len(lines)
       THEN IF Len(lines[k]) > width
            THEN Prefix(lines[k], width)
            ELSE lines[k] \o Rep(width - Len(lines[k]), " ")
       ELSE Rep(width, " ")]

\* CTableCell::Output on the text the embedded table printed.
TextBlockOutput(content, height, width) == FitLines(GetLines(content), height, width)

\* ---------------------------------------------------------------- rendering

\* What a render yields when its recursion never returns (the stack runs out).
StackOverflow == "stack_overflow"

\* The first failure among a set of results, "none" when all succeeded.
FirstErr(results) ==
    IF \E x \in results : x.err = StackOverflow THEN StackOverflow
    ELSE IF \E x \in results : x.err # "none" THEN LengthError
    ELSE "none"

\* The members of a grid (a sequence of rows).
GridSet(grid) == {grid[r][c] : r \in 1..Len(grid), c \in 1..(IF Len(grid) = 0 THEN 0 ELSE Len(grid[1]))}

\* virtual CBase::Width of cell object o; emb is the text `oss << *tableContent`
\* produces when o is a CTableCell.
CellWidth(o, emb) ==
    CASE o.kind = "CEmpty" -> 0
      [] o.kind = "CText" -> CTextWidth(o)
      [] o.kind = "CImage" -> CImageWidth(o)
      [] o.kind = "CTableCell" -> TextBlockWidth(emb)

\* virtual CBase::Height of cell object o.
CellHeight(o, emb) ==
    CASE o.kind = "CEmpty" -> 0
      [] o.kind = "CText" -> CTextHeight(o)
      [] o.kind = "CImage" -> CImageHeight(o)
      [] o.kind = "CTableCell" -> TextBlockHeight(emb)

\* virtual CBase::Output of cell object o.
CellOutput(o, emb, height, width) ==
    CASE o.kind = "CEmpty" -> Ok(CEmptyOutput(height, width))
      [] o.kind = "CText" -> CTextOutput(o, height, width)
      [] o.kind = "CImage" -> Ok(CImageOutput(o, height, width))
      [] o.kind = "CTableCell" -> Ok(TextBlockOutput(emb, height, width))

\* A border that draws at least one dash per column.
PrintBorderDashed(maxColWidths) ==
    <<"+">> \o Concat([c \in 1..Len(maxColWidths) |->
                         Rep(Max(maxColWidths[c], 1), "-") \o <<"+">>])
            \o <<NL>>

\* printBorder: '+', then per column its dashes and '+', then '\n'.
PrintBorder(maxColWidths) ==
    <<"+">> \o Concat([c \in 1..Len(maxColWidths) |-> Rep(maxColWidths[c], "-") \o <<"+">>])
            \o <<NL>>

\* Column widths taken from the cells of the first row only.
MaxColWidthsFirstRow(T, ce, emb) ==
    [c \in 1..T.Cols |->
       IF T.Rows = 0 THEN 0 ELSE CellWidth(ce[T.Cells[1][c]], emb[1][c].val)] \o <<>>

\* Column widths that give every column the width of the widest cell of the
\* table.
MaxColWidthsOverall(T, ce, emb) ==
    [c \in 1..T.Cols |->
       MaxOf([k \in 1..(T.Rows * T.Cols) |->
                CellWidth(ce[T.Cells[((k - 1) \div T.Cols) + 1][((k - 1) % T.Cols) + 1]],
                          emb[((k - 1) \div T.Cols) + 1][((k - 1) % T.Cols) + 1].val)])] \o <<>>

\* Row heights that give every row at least one line.
MaxRowHeightsAtLeastOne(T, ce, emb) ==
    [r \in 1..T.Rows |->
       Max(1, MaxOf([c \in 1..T.Cols |-> CellHeight(ce[T.Cells[r][c]], emb[r][c].val)]))] \o <<>>

\* The first loop of operator<< : maxColWidths and maxRowHeights of table T.
MaxColWidths(T, ce, emb) ==
    [c \in 1..T.Cols |->
       MaxOf([r \in 1..T.Rows |-> CellWidth(ce[T.Cells[r][c]], emb[r][c].val)])] \o <<>>
MaxRowHeights(T, ce, emb) ==
    [r \in 1..T.Rows |->
       MaxOf([c \in 1..T.Cols |-> CellHeight(ce[T.Cells[r][c]], emb[r][c].val)])] \o <<>>

\* OutputRow of every row: each cell's Output at its row's height and its
\* column's width.
OutputRows(T, ce, emb, maxColWidths, maxRowHeights) ==
    [r \in 1..T.Rows |->
       [c \in 1..T.Cols |->
          CellOutput(ce[T.Cells[r][c]], emb[r][c].val, maxRowHeights[r], maxColWidths[c])]
       \o <<>>] \o <<>>

\* A printer that closes the table once, after the last row, instead of
\* after every row.
EmitOpen(T, maxColWidths, maxRowHeights, out) ==
    IF FirstErr(GridSet(out)) # "none" THEN Fail(FirstErr(GridSet(out)))
    ELSE Ok(PrintBorder(maxColWidths) \o
            Concat([r \in 1..T.Rows |->
               Concat([v \in 1..maxRowHeights[r] |->
                  <<"|">> \o Concat([c \in 1..T.Cols |-> out[r][c].val[v] \o <<"|">>])
                          \o <<NL>>])])
            \o (IF T.Rows > 0 THEN PrintBorder(maxColWidths) ELSE <<>>))

\* The text of operator<< : the border, then per row its lines and the border.
Emit(T, maxColWidths, maxRowHeights, out) ==
    IF FirstErr(GridSet(out)) # "none" THEN Fail(FirstErr(GridSet(out)))
    ELSE Ok(PrintBorder(maxColWidths) \o
            Concat([r \in 1..T.Rows |->
               Concat([v \in 1..maxRowHeights[r] |->
                  <<"|">> \o Concat([c \in 1..T.Cols |-> out[r][c].val[v] \o <<"|">>])
                          \o <<NL>>])
               \o PrintBorder(maxColWidths)]))

RenderSized(T, ce, emb, maxColWidths, maxRowHeights) ==
    Emit(T, maxColWidths, maxRowHeights,
         OutputRows(T, ce, emb, maxColWidths, maxRowHeights))

RenderMeasured(T, ce, emb) ==
    IF FirstErr(GridSet(emb)) # "none" THEN Fail(FirstErr(GridSet(emb)))
    ELSE RenderSized(T, ce, emb, MaxColWidths(T, ce, emb), MaxRowHeights(T, ce, emb))

RECURSIVE RenderTableF(_, _, _, _)

\* Per cell of table t, what `oss << *tableContent` yields (for a cell that
\* is no CTableCell: nothing).
EmbeddedTexts(tb, ce, t, fuel) ==
    [r \in 1..tb[t].Rows |->
       [c \in 1..tb[t].Cols |->
          IF ce[tb[t].Cells[r][c]].kind = "CTableCell"
          THEN RenderTableF(tb, ce, ce[tb[t].Cells[r][c]].tableContent, fuel - 1)
          ELSE Ok(<<>>)]
       \o <<>>] \o <<>>

\* operator<<(ostream&, const CTable&) on table object t; `fuel` is the depth
\* of nested calls left before the stack runs out.
RenderTableF(tb, ce, t, fuel) ==
    IF fuel <= 0 THEN Fail(StackOverflow)
    ELSE RenderMeasured(tb[t], ce, EmbeddedTexts(tb, ce, t, fuel))

\* Rendering with as much stack as any acyclic heap needs.
RenderTable(tb, ce, t) == RenderTableF(tb, ce, t, Cardinality(DOMAIN tb) + 1)

\* --------------------------------------------------------------------- heap

\* The largest object id in use in heap f, 0 for the empty heap.
MaxId(f) == IF DOMAIN f = {} THEN 0 ELSE CHOOSE m \in DOMAIN f : \A x \in DOMAIN f : x <= m

\* The cell ids of a grid, row by row.
GridCells(grid) == Concat(grid)

\* A clone that keeps the lines but not the alignment.
CloneUnaligned(ce, c) == [ce[c] EXCEPT !.formatType = "ALIGN_LEFT"]

\* Clone(): make_shared<X>(*this), the implicit copy constructor of the
\* dynamic type.  It copies every field; for a CTableCell the field is the
\* shared_ptr<CTable>, so the copy points to the same embedded table.
Clone(ce, c) == ce[c]

\* A result of an operation on the heap.
Heap(tb, ce, id) == [tb |-> tb, ce |-> ce, id |-> id]

\* A copy that copies the shared_ptrs of `other` instead of cloning the cells.
CTableCopyShallow(tb, ce, other) ==
    Heap(tb @@ ((MaxId(tb) + 1) :> tb[other]), ce, MaxId(tb) + 1)

\* CTable(const CTable& other): a new table object whose every cell is a
\* clone of the corresponding cell of `other`.
CTableCopy(tb, ce, other) ==
    LET Rows == tb[other].Rows
        Cols == tb[other].Cols
        base == MaxId(ce)
        grid == [r \in 1..Rows |-> [c \in 1..Cols |-> base + (r - 1) * Cols + c] \o <<>>] \o <<>>
        made == [id \in (base + 1)..(base + Rows * Cols) |->
                   Clone(ce, tb[other].Cells[((id - base - 1) \div Cols) + 1]
                                            [((id - base - 1) % Cols) + 1])]
    IN  Heap(tb @@ ((MaxId(tb) + 1) :> [Rows |-> Rows, Cols |-> Cols, Cells |-> grid]),
             ce @@ made,
             MaxId(tb) + 1)

\* A constructor with signed parameters: a negative count makes no rows or
\* no columns instead of failing.
CTableCtorSigned(tb, ce, rows, cols) ==
    [err |-> "none",
     tb |-> tb @@ ((MaxId(tb) + 1) :>
              [Rows |-> Max(rows, 0), Cols |-> Max(cols, 0),
               Cells |-> [r \in 1..rows |-> [c \in 1..cols |-> MaxId(ce) + (r - 1) * cols + c]]]),
     ce |-> ce @@ [id \in (MaxId(ce) + 1)..(MaxId(ce) + Max(rows, 0) * Max(cols, 0)) |-> CEmpty],
     id |-> MaxId(tb) + 1]

\* CTable(size_t rows, size_t cols): the arguments arrive converted to size_t;
\* vector(n, ...) throws std::length_error when n exceeds max_size() (a
\* shared_ptr takes 16 bytes, a vector 24), and then no table exists.
CTableCtor(tb, ce, rows, cols) ==
    LET Rows == ToSizeT(rows)
        Cols == ToSizeT(cols)
        base == MaxId(ce)
    IN  IF Cols > VecMaxSize(16) \/ Rows > VecMaxSize(24)
        THEN [err |-> LengthError, tb |-> tb, ce |-> ce, id |-> Null]
        ELSE [err |-> "none",
              tb |-> tb @@ ((MaxId(tb) + 1) :>
                       [Rows |-> Rows, Cols |-> Cols,
                        Cells |-> [r \in 1..Rows |->
                                     [c \in 1..Cols |-> base + (r - 1) * Cols + c] \o <<>>]
                                  \o <<>>]),
              ce |-> ce @@ [id \in (base + 1)..(base + Rows * Cols) |-> CEmpty],
              id |-> MaxId(tb) + 1]

\* A CTableCell that keeps a pointer to the caller's table instead of a copy.
CTableCellCtorByRef(tb, ce, table) == Heap(tb, ce, table)

\* CTableCell(const CTable& table): tableContent = make_shared<CTable>(table),
\* a copy of `table` made now.  Yields the heap and, as id, the new table.
CTableCellCtor(tb, ce, table) == CTableCopy(tb, ce, table)

\* A store that puts the new cell object into every column of the row.
StoreCellWholeRow(tb, ce, t, row, col, obj) ==
    Heap([tb EXCEPT ![t].Cells[row + 1] = [c \in 1..Len(@) |-> MaxId(ce) + 1] \o <<>>],
         ce @@ ((MaxId(ce) + 1) :> obj),
         MaxId(ce) + 1)

\* Cells[row][col] = <a new cell object holding obj> (row, col 0-based).
StoreCell(tb, ce, t, row, col, obj) ==
    Heap([tb EXCEPT ![t].Cells[row + 1][col + 1] = MaxId(ce) + 1],
         ce @@ ((MaxId(ce) + 1) :> obj),
         MaxId(ce) + 1)

\* CTable::setCell(row, col, const CBase& cell): stores cell.Clone().
SetCellBase(tb, ce, t, row, col, obj) == StoreCell(tb, ce, t, row, col, obj)

\* Cells[row][col] = <the CTableCell whose embedded table is made.id>.
StoreMade(made, t, row, col) ==
    StoreCell(made.tb, made.ce, t, row, col,
              CellObj("CTableCell", <<>>, "ALIGN_LEFT", <<>>, made.id))

\* CTable::setCell(row, col, const CTable& cell): the CTableCell is built
\* (copying `cell`) before the slot is assigned.
SetCellTable(tb, ce, t, row, col, src) ==
    StoreMade(CTableCellCtor(tb, ce, src), t, row, col)

\* An assignment that takes Rows and Cols but keeps the old grid.
AssignDimsOnly(tb, t, copy) ==
    Heap([tb EXCEPT ![t].Rows = copy.tb[copy.id].Rows, ![t].Cols = copy.tb[copy.id].Cols],
         copy.ce, t)

\* An assignment that takes the grid but transposes the dimensions.
AssignTransposed(tb, t, copy) ==
    Heap([x \in DOMAIN tb |->
            IF x = t THEN [copy.tb[copy.id] EXCEPT !.Rows = copy.tb[copy.id].Cols,
                                                   !.Cols = copy.tb[copy.id].Rows]
            ELSE tb[x]], copy.ce, t)

\* Table object t takes the Rows, Cols and Cells of the fresh copy.
AssignFrom(tb, t, copy) ==
    Heap([x \in DOMAIN tb |-> IF x = t THEN copy.tb[copy.id] ELSE tb[x]], copy.ce, t)

\* An assignment that copies the vector of shared_ptrs: Cells = other.Cells.
AssignShared(tb, ce, t, other) == Heap([tb EXCEPT ![t] = tb[other]], ce, t)

\* CTable::operator=(const CTable& other) on table object t.
Assign(tb, ce, t, other) ==
    IF other = t THEN Heap(tb, ce, t)
    ELSE AssignFrom(tb, t, CTableCopy(tb, ce, other))

\* CText::setText on the cell object c.
SetText(ce, c, text) == [ce EXCEPT ![c].allLines = SetTextLines(text)]

\* --------------------------------------------------------------- comparison

RECURSIVE TableEqF(_, _, _, _, _)

\* A comparison by appearance: an empty cell also equals a text with no lines.
CellEqBlank(tb, ce, a, b, fuel) ==
    CASE ce[a].kind = "CEmpty" -> ce[b].kind = "CEmpty" \/ (ce[b].kind = "CText" /\ ce[b].allLines = <<>>)
      [] ce[a].kind = "CText" -> /\ ce[b].kind = "CText"
                                 /\ ce[a].allLines = ce[b].allLines
                                 /\ ce[a].formatType = ce[b].formatType
      [] ce[a].kind = "CImage" -> /\ ce[b].kind = "CImage"
                                  /\ ce[a].imageData = ce[b].imageData
      [] ce[a].kind = "CTableCell" ->
           /\ ce[b].kind = "CTableCell"
           /\ TableEqF(tb, ce, ce[a].tableContent, ce[b].tableContent, fuel - 1)

\* virtual CBase::operator== : a.operator==(b), by a's dynamic type.
CellEq(tb, ce, a, b, fuel) ==
    CASE ce[a].kind = "CEmpty" -> ce[b].kind = "CEmpty"
      [] ce[a].kind = "CText" -> /\ ce[b].kind = "CText"
                                 /\ ce[a].allLines = ce[b].allLines
                                 /\ ce[a].formatType = ce[b].formatType
      [] ce[a].kind = "CImage" -> /\ ce[b].kind = "CImage"
                                  /\ ce[a].imageData = ce[b].imageData
      [] ce[a].kind = "CTableCell" ->
           /\ ce[b].kind = "CTableCell"
           /\ TableEqF(tb, ce, ce[a].tableContent, ce[b].tableContent, fuel - 1)

\* A comparison that looks only at the positions both tables have.
TableEqCommon(tb, ce, t, u, fuel) ==
    /\ fuel > 0
    /\ \A r \in 1..(IF tb[t].Rows < tb[u].Rows THEN tb[t].Rows ELSE tb[u].Rows) :
          \A c \in 1..(IF tb[t].Cols < tb[u].Cols THEN tb[t].Cols ELSE tb[u].Cols) :
             CellEq(tb, ce, tb[t].Cells[r][c], tb[u].Cells[r][c], fuel)

\* CTable::operator== ; with no stack left the comparison yields nothing.
TableEqF(tb, ce, t, u, fuel) ==
    /\ fuel > 0
    /\ tb[t].Rows = tb[u].Rows
    /\ tb[t].Cols = tb[u].Cols
    /\ \A r \in 1..tb[t].Rows : \A c \in 1..tb[t].Cols :
          CellEq(tb, ce, tb[t].Cells[r][c], tb[u].Cells[r][c], fuel)

TableEq(tb, ce, t, u) == TableEqF(tb, ce, t, u, Cardinality(DOMAIN tb) + 1)

\* CTable::operator!= : !(*this == other).
TableNe(tb, ce, t, u) == ~TableEq(tb, ce, t, u)

\* ------------------------------------------------------ release of objects

\* The embedded tables the cells of table t point to, in row order.
ChildTables(tb, ce, t) ==
    LET ids == GridCells(tb[t].Cells)
        IsRef(c) == c # Null /\ ce[c].kind = "CTableCell"
        refs == SelectSeq(ids, IsRef)
    IN  [i \in 1..Len(refs) |-> ce[refs[i]].tableContent]

\* The table objects some owner still holds, in order of first visit.
RECURSIVE ReachTables(_, _, _, _)
ReachTables(work, seen, tb, ce) ==
    IF work = <<>> THEN seen
    ELSE IF \E i \in 1..Len(seen) : seen[i] = Head(work)
         THEN ReachTables(Tail(work), seen, tb, ce)
         ELSE ReachTables(ChildTables(tb, ce, Head(work)) \o Tail(work),
                          Append(seen, Head(work)), tb, ce)

\* A sequence without its repetitions and without Null.
RECURSIVE Distinct(_, _)
Distinct(s, acc) ==
    IF s = <<>> THEN acc
    ELSE IF Head(s) = Null \/ \E i \in 1..Len(acc) : acc[i] = Head(s)
         THEN Distinct(Tail(s), acc)
         ELSE Distinct(Tail(s), Append(acc, Head(s)))

IndexOf(s, x) == CHOOSE i \in 1..Len(s) : s[i] = x

\* The heap restricted to the tables ts and the cells cs, each object
\* numbered by its place in ts / cs (an object's address carries no meaning).
Renumber(vr, tb, ce, ts, cs) ==
    [vars |-> [n \in Names |-> IF vr[n] = Null THEN Null ELSE IndexOf(ts, vr[n])],
     tables |-> [i \in 1..Len(ts) |->
                   [Rows |-> tb[ts[i]].Rows,
                    Cols |-> tb[ts[i]].Cols,
                    Cells |-> [r \in DOMAIN tb[ts[i]].Cells |->
                                 [c \in DOMAIN tb[ts[i]].Cells[r] |->
                                    IF tb[ts[i]].Cells[r][c] = Null THEN Null
                                    ELSE IndexOf(cs, tb[ts[i]].Cells[r][c])] \o <<>>]
                              \o <<>>]] \o <<>>,
     cells |-> [j \in 1..Len(cs) |->
                  IF ce[cs[j]].tableContent = Null THEN ce[cs[j]]
                  ELSE [ce[cs[j]] EXCEPT !.tableContent = IndexOf(ts, ce[cs[j]].tableContent)]]
               \o <<>>]

\* The cells of the tables ts, in order of first visit.
ReachCells(tb, ts) ==
    Distinct(Concat([i \in 1..Len(ts) |-> GridCells(tb[ts[i]].Cells)]), <<>>)

KeepReachable(vr, tb, ce, ts) == Renumber(vr, tb, ce, ts, ReachCells(tb, ts))

\* The objects of the caller's constructed variables, in NameOrder.
Roots(vr) ==
    LET named == SelectSeq(NameOrder, LAMBDA n : vr[n] # Null)
    IN  [i \in 1..Len(named) |-> vr[named[i]]]

\* shared_ptr releases what no owner holds: the heap restricted to the objects
\* reachable from the caller's variables.
Collect(vr, tb, ce) == KeepReachable(vr, tb, ce, ReachTables(Roots(vr), <<>>, tb, ce))

\* ------------------------------------------------------------------ inputs

\* The arguments callers pass for rows and for cols (signed values), and the
\* indices they pass for row and col.
RowArgs == {-1, 0, 1}
ColArgs == {-1, 0, 1, 2}
RowIdx == {0, 1}
ColIdx == {0, 1, 2}

\* The texts callers pass to setText(...).
Texts == {<<"a">>}

\* The temporaries callers pass to setCell(row, col, const CBase&).
Contents == {CEmpty, CText(<<"b", "c", NL, "d">>, "ALIGN_RIGHT")}

\* -------------------------------------------------------------------- state

\* The object of variable n, and whether (row, col) is a cell of it.
Obj(n) == tables[vars[n]]

\* The Rows and Cols of variable n's table, <<0, 0>> while n names none.
DimsOf(n) == IF n \in Names /\ vars[n] # Null THEN <<Obj(n).Rows, Obj(n).Cols>> ELSE <<0, 0>>

\* The record of an operation: its name, the variable it was called on, its
\* row/col arguments, its table argument, what it yielded, and the Rows and
\* Cols the variable's table had when it was called.
Op(op, tgt, row, col, src, res) ==
    [op |-> op, tgt |-> tgt, row |-> row, col |-> col, src |-> src, res |-> res,
     was |-> DimsOf(tgt)]
InRange(n, row, col) == row < Obj(n).Rows /\ col < Obj(n).Cols
CellAt(n, row, col) == Obj(n).Cells[row + 1][col + 1]

\* The variables that name a constructed table.
Live == {n \in Names : vars[n] # Null}

\* The operation's heap becomes the state once unreferenced objects are
\* released; the model stops growing the heap at MaxTables / MaxCells objects.
Install(kept) ==
    /\ Len(kept.tables) <= MaxTables
    /\ Len(kept.cells) <= MaxCells
    /\ vars' = kept.vars
    /\ tables' = kept.tables
    /\ cells' = kept.cells

Commit(vr, tb, ce) == Install(Collect(vr, tb, ce))

\* An operation's resulting heap h becomes the state.
CommitHeap(vr, h) == Commit(vr, h.tb, h.ce)

Init ==
    /\ vars = [n \in Names |-> Null]
    /\ tables = <<>>
    /\ cells = <<>>
    /\ crashed = FALSE
    /\ lastOp = Op("start", "", 0, 0, "", "ok")
    /\ origin = [n \in Names |-> ""]
    /\ snaps = {}

\* ------------------------------------------------------------------ actions

\* Variable n names the object a constructor made (none when it threw).
ConstructFrom(n, made) == Commit([vars EXCEPT ![n] = made.id], made.tb, made.ce)

\* CTable n(rows, cols);
Construct(n, rows, cols) ==
    /\ ~crashed
    /\ vars[n] = Null
    /\ ConstructFrom(n, CTableCtor(tables, cells, rows, cols))
    /\ lastOp' = Op("CTable", n, rows, cols, "",
                    IF CTableCtor(tables, cells, rows, cols).err = "none" THEN "ok"
                    ELSE CTableCtor(tables, cells, rows, cols).err)
    /\ UNCHANGED <<crashed, origin, snaps>>

\* CTable n(other);
CopyConstruct(n, other) ==
    /\ ~crashed
    /\ vars[n] = Null
    /\ vars[other] # Null
    /\ ConstructFrom(n, CTableCopy(tables, cells, vars[other]))
    /\ lastOp' = Op("copy", n, 0, 0, other, "ok")
    /\ origin' = [origin EXCEPT ![n] = other]
    /\ UNCHANGED <<crashed, snaps>>

\* The snapshots recorded for cells other than (n, row, col).
SnapsBut(n, row, col) == {f \in snaps : ~(f.dst = n /\ f.row = row /\ f.col = col)}

\* n.setCell(row, col, content) with a temporary content.
SetCellContent(n, row, col, content) ==
    /\ ~crashed
    /\ vars[n] # Null
    /\ InRange(n, row, col)
    /\ CommitHeap(vars, SetCellBase(tables, cells, vars[n], row, col, content))
    /\ lastOp' = Op("setCell", n, row, col, "", "ok")
    /\ snaps' = SnapsBut(n, row, col)
    /\ UNCHANGED <<crashed, origin>>

\* n.setCell(row, col, m.getCell(r2, c2));
SetCellFromCell(n, row, col, m, r2, c2) ==
    /\ ~crashed
    /\ vars[n] # Null
    /\ vars[m] # Null
    /\ InRange(n, row, col)
    /\ InRange(m, r2, c2)
    /\ CommitHeap(vars, SetCellBase(tables, cells, vars[n], row, col,
                                    Clone(cells, CellAt(m, r2, c2))))
    /\ lastOp' = Op("setCellFromCell", n, row, col, m, "ok")
    /\ snaps' = SnapsBut(n, row, col)
    /\ UNCHANGED <<crashed, origin>>

\* n.setCell(row, col, m) with a table m (m may be n itself).
SetCellFromTable(n, row, col, m) ==
    /\ ~crashed
    /\ vars[n] # Null
    /\ vars[m] # Null
    /\ InRange(n, row, col)
    /\ CommitHeap(vars, SetCellTable(tables, cells, vars[n], row, col, vars[m]))
    /\ lastOp' = Op("setCellTable", n, row, col, m, "ok")
    /\ snaps' = SnapsBut(n, row, col) \cup
          {[dst |-> n, row |-> row, col |-> col, src |-> m,
            out |-> RenderTable(tables, cells, vars[m])]}
    /\ UNCHANGED <<crashed, origin>>

\* dynamic_cast<CText&>(n.getCell(row, col)).setText(text);
\* the cast throws std::bad_cast when the cell is no CText.
SetTextIn(n, row, col, text) ==
    /\ ~crashed
    /\ vars[n] # Null
    /\ InRange(n, row, col)
    /\ IF cells[CellAt(n, row, col)].kind = "CText"
       THEN /\ Commit(vars, tables, SetText(cells, CellAt(n, row, col), text))
            /\ lastOp' = Op("setText", n, row, col, "", "ok")
       ELSE /\ UNCHANGED <<vars, tables, cells>>
            /\ lastOp' = Op("setText", n, row, col, "", "bad_cast")
    /\ UNCHANGED <<crashed, origin, snaps>>

\* n = m;
AssignTable(n, m) ==
    /\ ~crashed
    /\ vars[n] # Null
    /\ vars[m] # Null
    /\ CommitHeap(vars, Assign(tables, cells, vars[n], vars[m]))
    /\ lastOp' = Op("assign", n, 0, 0, m, "ok")
    /\ snaps' = IF n = m THEN snaps ELSE {f \in snaps : f.dst # n}
    /\ UNCHANGED <<crashed, origin>>

\* n == m and n != m: const member functions, nothing is written.
Compare(n, m) ==
    /\ ~crashed
    /\ vars[n] # Null
    /\ vars[m] # Null
    /\ TableEq(tables, cells, vars[n], vars[m]) \in BOOLEAN
    /\ UNCHANGED allVars

\* oss << n; the table is taken by const reference, nothing of it is written.
StreamOut(n) ==
    /\ ~crashed
    /\ vars[n] # Null
    /\ RenderTable(tables, cells, vars[n]).err \in {"none", LengthError, StackOverflow}
    /\ UNCHANGED allVars

Next ==
    \/ \E n \in Names, rows \in RowArgs, cols \in ColArgs : Construct(n, rows, cols)
    \/ \E n \in Names, other \in Names : CopyConstruct(n, other)
    \/ \E n \in Names, row \in RowIdx, col \in ColIdx, content \in Contents :
          SetCellContent(n, row, col, content)
    \/ \E n \in Names, row \in RowIdx, col \in ColIdx,
          m \in Names, r2 \in RowIdx, c2 \in ColIdx :
          SetCellFromCell(n, row, col, m, r2, c2)
    \/ \E n \in Names, row \in RowIdx, col \in ColIdx, m \in Names :
          SetCellFromTable(n, row, col, m)
    \/ \E n \in Names, row \in RowIdx, col \in ColIdx, text \in Texts :
          SetTextIn(n, row, col, text)
    \/ \E n \in Names, m \in Names : AssignTable(n, m)
    \/ \E n \in Names, m \in Names : Compare(n, m)
    \/ \E n \in Names : StreamOut(n)

\* Callers that keep to the indices of their tables.
Spec == Init /\ [][Next]_allVars

\* ------------------------------------------- calls with an index off the grid

\* Cells[row][col] with row >= Rows or col >= Cols reads past the end of a
\* vector: undefined behaviour.  What a build can show for getCell: the read
\* or the dereference faults, or the call returns a reference to whatever
\* the bytes found there point at.
GetCellUB == {"segfault", "wild_reference"}

\* n.getCell(row, col);
GetCell(n, row, col) ==
    /\ ~crashed
    /\ vars[n] # Null
    /\ IF InRange(n, row, col)
       THEN /\ lastOp' = Op("getCell", n, row, col, "", "ok")
            /\ UNCHANGED crashed
       ELSE \E outcome \in GetCellUB :
               /\ lastOp' = Op("getCell", n, row, col, "", outcome)
               /\ crashed' = (outcome = "segfault")
    /\ UNCHANGED <<vars, tables, cells, origin, snaps>>

\* What a build can show for the assignment to Cells[row][col] off the grid:
\* the write faults, it lands in memory that is no cell of any table, or it
\* lands on the slot of another cell (row buffers lie side by side on the heap).
SetCellUB == {"segfault", "stray_write", "overwrite"}

\* The slots the stray assignment can land on.
Slots == {sl \in Live \X RowIdx \X ColIdx : InRange(sl[1], sl[2], sl[3])}

\* The state after the off-grid assignment; store[sl] is the heap once the
\* new cell is in slot sl.
OffGridStore(n, row, col, outcome, src, store) ==
    /\ lastOp' = Op(IF src = "" THEN "setCell" ELSE "setCellTable", n, row, col, src, outcome)
    /\ crashed' = (outcome = "segfault")
    /\ IF outcome = "overwrite"
       THEN \E sl \in Slots :
               /\ CommitHeap(vars, store[sl])
               /\ snaps' = SnapsBut(sl[1], sl[2], sl[3])
       ELSE UNCHANGED <<vars, tables, cells, snaps>>
    /\ UNCHANGED origin

\* n.setCell(row, col, content) with (row, col) off the grid.
SetCellContentOffGrid(n, row, col, content) ==
    /\ ~crashed
    /\ vars[n] # Null
    /\ ~InRange(n, row, col)
    /\ \E outcome \in SetCellUB :
          OffGridStore(n, row, col, outcome, "",
             [sl \in Slots |-> SetCellBase(tables, cells, vars[sl[1]], sl[2], sl[3], content)])

\* n.setCell(row, col, m) with a table m and (row, col) off the grid.
SetCellFromTableOffGrid(n, row, col, m) ==
    /\ ~crashed
    /\ vars[n] # Null
    /\ vars[m] # Null
    /\ ~InRange(n, row, col)
    /\ \E outcome \in SetCellUB :
          OffGridStore(n, row, col, outcome, m,
             [sl \in Slots |-> SetCellTable(tables, cells, vars[sl[1]], sl[2], sl[3], vars[m])])

\* Programs that construct tables and call getCell and setCell with any index.
NextUB ==
    \/ \E n \in Names, rows \in RowArgs, cols \in ColArgs : Construct(n, rows, cols)
    \/ \E n \in Names, row \in RowIdx, col \in ColIdx, content \in Contents :
          SetCellContent(n, row, col, content)
    \/ \E n \in Names, row \in RowIdx, col \in ColIdx, m \in Names :
          SetCellFromTable(n, row, col, m)
    \/ \E n \in Names, row \in RowIdx, col \in ColIdx : GetCell(n, row, col)
    \/ \E n \in Names, row \in RowIdx, col \in ColIdx, content \in Contents :
          SetCellContentOffGrid(n, row, col, content)
    \/ \E n \in Names, row \in RowIdx, col \in ColIdx, m \in Names :
          SetCellFromTableOffGrid(n, row, col, m)

SpecUB == Init /\ [][NextUB]_allVars

\* ------------------------------------------------ calls on the cells of a grid

\* The heap after  CTable e1(1,1);  CTable e2(1,1);  e2.setCell(0,0,CText("a")):
\* table object 1 is e1, table object 2 is e2.
PoolOf(two) == SetCellBase(two.tb, two.ce, 2, 0, 0, CText(<<"a">>, "ALIGN_LEFT"))
Pool == PoolOf(CTableCtor(CTableCtor(<<>>, <<>>, 1, 1).tb, CTableCtor(<<>>, <<>>, 1, 1).ce, 1, 1))

\* A table argument of setCell: the table object e of the pool.
TableArg(e) == CellObj("CTableCell", <<>>, "ALIGN_LEFT", <<>>, e)

\* t.setCell(row, col, item) on heap h, by the overload the item selects.
Put(h, t, row, col, item) ==
    IF item.kind = "CTableCell"
    THEN SetCellTable(h.tb, h.ce, t, row, col, item.tableContent)
    ELSE SetCellBase(h.tb, h.ce, t, row, col, item)

\* The heap after t.setCell(r, c, in.At[r][c]) for the positions k, k+1, ...
\* of table t in row order.
RECURSIVE FillFrom(_, _, _, _)
FillFrom(h, t, in, k) ==
    IF k > in.Rows * in.Cols THEN h
    ELSE FillFrom(Put(h, t, (k - 1) \div in.Cols, (k - 1) % in.Cols,
                      in.At[((k - 1) \div in.Cols) + 1][((k - 1) % in.Cols) + 1]),
                  t, in, k + 1)

\* The heap after  CTable t0(in.Rows, in.Cols)  and a setCell per position.
GridHeap(in) == FillFrom(CTableCtor(Pool.tb, Pool.ce, in.Rows, in.Cols), 3, in, 1)

\* The grids of the given dimensions over the given setCell arguments.
Inputs(dims, items) ==
    UNION {{[Rows |-> d[1], Cols |-> d[2], At |-> g] :
              g \in [1..d[1] -> [1..d[2] -> items]]} : d \in dims}

\* The state is the heap `kept`.
Given(kept) ==
    /\ vars = kept.vars
    /\ tables = kept.tables
    /\ cells = kept.cells

\* main has built t0 from one of the inputs; e1 and e2 are out of scope.
GridInit(inputs) ==
    /\ \E in \in inputs :
          Given(Collect([n \in Names |-> IF n = "t0" THEN 3 ELSE Null],
                        GridHeap(in).tb, GridHeap(in).ce))
    /\ crashed = FALSE
    /\ lastOp = Op("start", "", 0, 0, "", "ok")
    /\ origin = [n \in Names |-> ""]
    /\ snaps = {}

\* The text `oss << *tableContent` yields for cell object c (none for a cell
\* that is no CTableCell).
EmbText(tb, ce, c) ==
    IF ce[c].kind = "CTableCell" THEN RenderTableF(tb, ce, ce[c].tableContent, Cardinality(DOMAIN tb) + 1).val
    ELSE <<>>

\* c.Width(), c.Height(), c.Output(height, width) for cell object c.
WidthOf(tb, ce, c) == CellWidth(ce[c], EmbText(tb, ce, c))
HeightOf(tb, ce, c) == CellHeight(ce[c], EmbText(tb, ce, c))
OutputOf(tb, ce, c, height, width) == CellOutput(ce[c], EmbText(tb, ce, c), height, width)

\* The contents and tables passed to setCell, and the sizes passed to Output.
CellItems ==
    {CEmpty,
     CText(<<>>, "ALIGN_LEFT"),
     CText(<<"b", "c", NL, "d">>, "ALIGN_LEFT"),
     CText(<<"b", "c", NL, "d">>, "ALIGN_RIGHT"),
     CText(<<"d", NL, "b", "c">>, "ALIGN_LEFT"),
     CImage(<<>>),
     CImage(<<<<"x">>, <<"y", "z", "w">>>>),
     CImage(<<<<"x">>, <<"y", "z", "v">>>>),
     TableArg(1),
     TableArg(2)}
Heights == {0, 1, 2, 3}
Widths == {0, 1, 2, 3, 4}

InitCell == GridInit(Inputs({<<1, 2>>}, CellItems))

\* n.getCell(row, col).Output(height, width);
OutputCell(n, row, col, height, width) ==
    /\ ~crashed
    /\ vars[n] # Null
    /\ InRange(n, row, col)
    /\ lastOp' = [op |-> "Output", obj |-> cells[CellAt(n, row, col)],
                  height |-> height, width |-> width,
                  res |-> OutputOf(tables, cells, CellAt(n, row, col), height, width)]
    /\ UNCHANGED <<vars, tables, cells, crashed, origin, snaps>>

\* n.getCell(row, col) == n.getCell(r2, c2);
EqualCells(n, row, col, r2, c2) ==
    /\ ~crashed
    /\ vars[n] # Null
    /\ InRange(n, row, col)
    /\ InRange(n, r2, c2)
    /\ lastOp' = [op |-> "==", a |-> CellAt(n, row, col), b |-> CellAt(n, r2, c2),
                  res |-> CellEq(tables, cells, CellAt(n, row, col), CellAt(n, r2, c2),
                                 Cardinality(DOMAIN tables) + 1)]
    /\ UNCHANGED <<vars, tables, cells, crashed, origin, snaps>>

\* Programs that build a one-row table and call Output and == on its cells.
NextCell ==
    \/ \E n \in Names, row \in RowIdx, col \in ColIdx, height \in Heights, width \in Widths :
          OutputCell(n, row, col, height, width)
    \/ \E n \in Names, row \in RowIdx, col \in ColIdx, r2 \in RowIdx, c2 \in ColIdx :
          EqualCells(n, row, col, r2, c2)

SpecCell == InitCell /\ [][NextCell]_allVars

\* ------------------------------------------------- printing a filled table

\* The heap `kept` becomes the state (whatever its size).
Become(kept) ==
    /\ vars' = kept.vars
    /\ tables' = kept.tables
    /\ cells' = kept.cells

\* The grids printed, and the contents and texts written into them later.
RenderDims ==
    {<<0, 0>>, <<0, 1>>, <<0, 2>>, <<1, 0>>, <<2, 0>>, <<1, 1>>, <<1, 2>>, <<2, 1>>, <<2, 2>>}
RenderItems ==
    {CEmpty,
     CText(<<"b", "c", NL, "d">>, "ALIGN_RIGHT"),
     CImage(<<<<"x">>, <<"y", "z", "w">>>>),
     TableArg(2)}
RenderContents == {CEmpty, CText(<<"b", "c", NL, "d">>, "ALIGN_RIGHT")}
RenderTexts == {<<"a", "a", "a">>}

InitRender == GridInit(Inputs(RenderDims, RenderItems))

\* oss << n; the text printed is recorded.
Show(n) ==
    /\ ~crashed
    /\ vars[n] # Null
    /\ lastOp' = [op |-> "<<", tgt |-> n, res |-> RenderTable(tables, cells, vars[n])]
    /\ UNCHANGED <<vars, tables, cells, crashed, origin, snaps>>

\* n.setCell(row, col, content) with a temporary content.
WriteCell(n, row, col, content) ==
    /\ ~crashed
    /\ vars[n] # Null
    /\ InRange(n, row, col)
    /\ Become(Collect(vars, SetCellBase(tables, cells, vars[n], row, col, content).tb,
                      SetCellBase(tables, cells, vars[n], row, col, content).ce))
    /\ lastOp' = Op("setCell", n, row, col, "", "ok")
    /\ UNCHANGED <<crashed, origin, snaps>>

\* dynamic_cast<CText&>(n.getCell(row, col)).setText(text);
EditText(n, row, col, text) ==
    /\ ~crashed
    /\ vars[n] # Null
    /\ InRange(n, row, col)
    /\ IF cells[CellAt(n, row, col)].kind = "CText"
       THEN /\ Become(Collect(vars, tables, SetText(cells, CellAt(n, row, col), text)))
            /\ lastOp' = Op("setText", n, row, col, "", "ok")
       ELSE /\ UNCHANGED <<vars, tables, cells>>
            /\ lastOp' = Op("setText", n, row, col, "", "bad_cast")
    /\ UNCHANGED <<crashed, origin, snaps>>

\* Programs that fill a table, print it, and write to its cells in between.
NextRender ==
    \/ \E n \in Names : Show(n)
    \/ \E n \in Names, row \in RowIdx, col \in ColIdx, content \in RenderContents :
          WriteCell(n, row, col, content)
    \/ \E n \in Names, row \in RowIdx, col \in ColIdx, text \in RenderTexts :
          EditText(n, row, col, text)

SpecRender == InitRender /\ [][NextRender]_allVars

\* ------------------------------------------------- storing clones of cells

\* n.setCell(row, col, x) with a temporary content x; the argument is recorded.
StoreContent(n, row, col, x) ==
    /\ ~crashed
    /\ vars[n] # Null
    /\ InRange(n, row, col)
    /\ Become(Collect(vars, SetCellBase(tables, cells, vars[n], row, col, x).tb,
                      SetCellBase(tables, cells, vars[n], row, col, x).ce))
    /\ lastOp' = [op |-> "setCell", tgt |-> n, row |-> row, col |-> col, arg |-> x, res |-> "ok"]
    /\ UNCHANGED <<crashed, origin, snaps>>

\* n.setCell(row, col, m.getCell(r2, c2)); the source position is recorded.
CopyCell(n, row, col, m, r2, c2) ==
    /\ ~crashed
    /\ vars[n] # Null
    /\ vars[m] # Null
    /\ InRange(n, row, col)
    /\ InRange(m, r2, c2)
    /\ Become(Collect(vars,
                      SetCellBase(tables, cells, vars[n], row, col,
                                  Clone(cells, CellAt(m, r2, c2))).tb,
                      SetCellBase(tables, cells, vars[n], row, col,
                                  Clone(cells, CellAt(m, r2, c2))).ce))
    /\ lastOp' = [op |-> "setCellFromCell", tgt |-> n, row |-> row, col |-> col,
                  src |-> m, r2 |-> r2, c2 |-> c2, res |-> "ok"]
    /\ UNCHANGED <<crashed, origin, snaps>>

InitClone == GridInit(Inputs({<<1, 2>>}, CellItems))

\* Programs that fill a one-row table and then store contents and clones of
\* its cells into it and replace texts in place.
NextClone ==
    \/ \E n \in Names, row \in RowIdx, col \in ColIdx, x \in RenderContents :
          StoreContent(n, row, col, x)
    \/ \E n \in Names, row \in RowIdx, col \in ColIdx,
          m \in Names, r2 \in RowIdx, c2 \in ColIdx :
          CopyCell(n, row, col, m, r2, c2)
    \/ \E n \in Names, row \in RowIdx, col \in ColIdx, text \in RenderTexts :
          EditText(n, row, col, text)

SpecClone == InitClone /\ [][NextClone]_allVars

\* --------------------------------------------- measuring an embedded table

\* The heap after  CTable t1(1, 1); t1.setCell(0, 0, t0);  where `made` is the
\* heap in which t1 was just constructed and t0 is table object 3.
NestHeap(made) == SetCellTable(made.tb, made.ce, made.id, 0, 0, 3)
NestedIn(h) == NestHeap(CTableCtor(h.tb, h.ce, 1, 1))

\* main has built t0 from one of the inputs and stored it into a cell of t1.
InitMeasure ==
    /\ \E in \in Inputs(RenderDims, RenderItems) :
          Given(Collect([n \in Names |-> IF n = "t0" THEN 3 ELSE MaxId(GridHeap(in).tb) + 1],
                        NestedIn(GridHeap(in)).tb, NestedIn(GridHeap(in)).ce))
    /\ crashed = FALSE
    /\ lastOp = Op("start", "", 0, 0, "", "ok")
    /\ origin = [n \in Names |-> ""]
    /\ snaps = {}

\* n.getCell(row, col).Width() and .Height(); both are recorded.
MeasureCell(n, row, col) ==
    /\ ~crashed
    /\ vars[n] # Null
    /\ InRange(n, row, col)
    /\ lastOp' = [op |-> "measure", cell |-> CellAt(n, row, col),
                  width |-> WidthOf(tables, cells, CellAt(n, row, col)),
                  height |-> HeightOf(tables, cells, CellAt(n, row, col))]
    /\ UNCHANGED <<vars, tables, cells, crashed, origin, snaps>>

\* Programs that embed a filled table and ask its cell for its natural size.
NextMeasure == \E n \in Names, row \in RowIdx, col \in ColIdx : MeasureCell(n, row, col)

SpecMeasure == InitMeasure /\ [][NextMeasure]_allVars

\* -------------------------------------------- printing between the operations

\* Programs that construct, copy and write tables, compare them, and print
\* them with the printed text recorded.
NextPrint ==
    \/ \E n \in Names, rows \in RowArgs, cols \in ColArgs : Construct(n, rows, cols)
    \/ \E n \in Names, other \in Names : CopyConstruct(n, other)
    \/ \E n \in Names, row \in RowIdx, col \in ColIdx, content \in Contents :
          SetCellContent(n, row, col, content)
    \/ \E n \in Names, row \in RowIdx, col \in ColIdx, m \in Names :
          SetCellFromTable(n, row, col, m)
    \/ \E n \in Names, row \in RowIdx, col \in ColIdx, text \in Texts :
          SetTextIn(n, row, col, text)
    \/ \E n \in Names, m \in Names : Compare(n, m)
    \/ \E n \in Names : Show(n)

SpecPrint == Init /\ [][NextPrint]_allVars

\* ------------------------------------------------------- observable values

\* The value a table object holds: its dimensions and, per cell, the cell's
\* fields with the embedded table replaced by its own value.  `fuel` bounds
\* the nesting followed; a heap with a cycle yields Rows = -1 somewhere.
RECURSIVE ValOfF(_, _, _, _)
ContentVal(tb, ce, c, fuel) ==
    IF c = Null THEN [kind |-> "null"]
    ELSE [kind |-> ce[c].kind, allLines |-> ce[c].allLines,
          formatType |-> ce[c].formatType, imageData |-> ce[c].imageData,
          table |-> IF ce[c].kind = "CTableCell"
                    THEN ValOfF(tb, ce, ce[c].tableContent, fuel - 1)
                    ELSE [Rows |-> 0, Cols |-> 0, Cells |-> <<>>]]
ValOfF(tb, ce, t, fuel) ==
    IF fuel <= 0 THEN [Rows |-> -1, Cols |-> -1, Cells |-> <<>>]
    ELSE [Rows |-> tb[t].Rows, Cols |-> tb[t].Cols,
          Cells |-> [r \in DOMAIN tb[t].Cells |->
                       [c \in DOMAIN tb[t].Cells[r] |->
                          ContentVal(tb, ce, tb[t].Cells[r][c], fuel)]]]
ValOf(tb, ce, t) == ValOfF(tb, ce, t, Cardinality(DOMAIN tb) + 1)

\* The levels of embedded tables below table object t (0: no CTableCell).
RECURSIVE DepthF(_, _, _, _)
DepthF(tb, ce, t, fuel) ==
    IF fuel <= 0 THEN 0
    ELSE MaxOf([k \in 1..Len(GridCells(tb[t].Cells)) |->
                  IF ce[GridCells(tb[t].Cells)[k]].kind = "CTableCell"
                  THEN 1 + DepthF(tb, ce, ce[GridCells(tb[t].Cells)[k]].tableContent, fuel - 1)
                  ELSE 0])
Depth(tb, ce, t) == DepthF(tb, ce, t, Cardinality(DOMAIN tb) + 1)

\* The operations that write to the table they are called on.
Mutators == {"setCell", "setCellFromCell", "setCellTable", "setText", "assign"}

\* ------------------------------------------------------------------- claims

\* The cell a recorded snapshot f sits in still is a CTableCell whose embedded
\* table prints what the source table printed when it was inserted.
SnapIntact(f) ==
    /\ vars[f.dst] # Null
    /\ InRange(f.dst, f.row, f.col)
    /\ cells[CellAt(f.dst, f.row, f.col)].kind = "CTableCell"
    /\ RenderTable(tables, cells, cells[CellAt(f.dst, f.row, f.col)].tableContent) = f.out

\* A step that writes to a table some other table holds a snapshot of leaves
\* the rendering of that other table as it was.
SnapHolderKept ==
    \A f \in snaps :
       (/\ f.src # f.dst
        /\ lastOp'.op \in Mutators
        /\ lastOp'.tgt = f.src)
       => RenderTable(tables', cells', vars'[f.dst]) = RenderTable(tables, cells, vars[f.dst])

\* C1: snapshot freezing.  After dst.setCell(r, c, src), whatever is done to
\* src afterwards (setCell, setText through getCell, assignment to src), the
\* cell (r, c) of dst renders what src rendered at the insertion, and a step
\* that writes to src leaves the rendering of dst unchanged.
C1_SnapshotFrozen == [](\A f \in snaps : SnapIntact(f)) /\ [][SnapHolderKept]_allVars

\* C1 witness: dst holds a snapshot of another table src, the last operation
\* wrote to src, and src no longer renders what the snapshot shows.
C1_Witness ==
    \E f \in snaps :
       /\ f.src # f.dst
       /\ lastOp.op = "setText"
       /\ lastOp.res = "ok"
       /\ lastOp.tgt = f.src
       /\ RenderTable(tables, cells, vars[f.src]) # f.out
       /\ SnapIntact(f)

\* Variable y keeps its value and its rendering over the step.
Kept(y) ==
    /\ ValOf(tables', cells', vars'[y]) = ValOf(tables, cells, vars[y])
    /\ RenderTable(tables', cells', vars'[y]) = RenderTable(tables, cells, vars[y])

\* The step is the copy construction b(a): b equals a and holds a's value,
\* and a keeps its value.
CopyMakesEqual ==
    lastOp'.op = "copy" =>
       /\ TableEq(tables', cells', vars'[lastOp'.tgt], vars'[lastOp'.src])
       /\ ValOf(tables', cells', vars'[lastOp'.tgt]) = ValOf(tables, cells, vars[lastOp'.src])
       /\ Kept(lastOp'.src)

\* A step that writes to one of a table and its copy leaves the other as it was.
CopyPairIndependent ==
    \A x \in Live, y \in Live :
       (/\ x # y
        /\ origin[x] = y \/ origin[y] = x
        /\ lastOp'.op \in Mutators
        /\ lastOp'.tgt = x)
       => Kept(y)

\* C2: copy independence.  Right after CTable b(a), b equals a; a later write
\* to a (setCell, setText through getCell, assignment) leaves b's cells and
\* rendering unchanged, and a later write to b leaves a unchanged.
C2_CopyIndependent == [][CopyMakesEqual /\ CopyPairIndependent]_allVars

\* C2 witness: b was copy-constructed from a while a held an embedded table,
\* the last operation wrote to a, and b still holds the embedded table while a
\* differs from b.
C2_Witness ==
    \E a \in Live, b \in Live :
       /\ origin[b] = a
       /\ lastOp.op \in {"setCell", "setText"}
       /\ lastOp.tgt = a
       /\ \E k \in 1..Len(GridCells(Obj(b).Cells)) :
             cells[GridCells(Obj(b).Cells)[k]].kind = "CTableCell"
       /\ ~TableEq(tables, cells, vars[a], vars[b])

\* The cell objects of variable n's grid.
CellsOf(tb, vr, n) == {GridCells(tb[vr[n]].Cells)[k] : k \in 1..Len(GridCells(tb[vr[n]].Cells))}

\* The step is the assignment b = a: afterwards b equals a and renders as a
\* does, a is as before, and the two grids share no cell object; with b and a
\* the same table nothing changes.
AssignMakesEqual ==
    lastOp'.op = "assign" =>
       /\ TableEq(tables', cells', vars'[lastOp'.tgt], vars'[lastOp'.src])
       /\ ValOf(tables', cells', vars'[lastOp'.tgt]) = ValOf(tables, cells, vars[lastOp'.src])
       /\ ValOf(tables', cells', vars'[lastOp'.src]) = ValOf(tables, cells, vars[lastOp'.src])
       /\ lastOp'.tgt # lastOp'.src =>
             /\ RenderTable(tables', cells', vars'[lastOp'.tgt])
                  = RenderTable(tables', cells', vars'[lastOp'.src])
             /\ CellsOf(tables', vars', lastOp'.tgt) \cap CellsOf(tables', vars', lastOp'.src) = {}
       /\ lastOp'.tgt = lastOp'.src => UNCHANGED <<vars, tables, cells>>

\* A step that writes to one table leaves the cells of every other variable's
\* table as they were.
OthersKept ==
    \A y \in Live :
       (lastOp'.op \in Mutators /\ lastOp'.tgt # y)
       => ValOf(tables', cells', vars'[y]) = ValOf(tables, cells, vars[y])

\* C3: copy-assignment.  b = a makes b equal to a and render as a, whatever b
\* held, leaves a unchanged and gives b a grid of its own (a later write to
\* either table does not change the other); a = a changes nothing.
C3_AssignCopies == [][AssignMakesEqual /\ OthersKept]_allVars

\* C3 witness: the last operation assigned to b a table a of other dimensions
\* than b had, and a holds a text cell.
C3_Witness ==
    /\ lastOp.op = "assign"
    /\ lastOp.tgt # lastOp.src
    /\ lastOp.was # DimsOf(lastOp.src)
    /\ \E c \in CellsOf(tables, vars, lastOp.src) : cells[c].kind = "CText"

\* C4 (as claimed): no two cell objects refer to the same embedded table
\* object, so a clone of a CTableCell owns an embedded table of its own.
C4_NoSharedEmbedded ==
    \A c1 \in DOMAIN cells, c2 \in DOMAIN cells :
       (c1 # c2 /\ cells[c1].kind = "CTableCell" /\ cells[c2].kind = "CTableCell")
       => cells[c1].tableContent # cells[c2].tableContent

\* The dimensions of variable n's table.
Dims(tb, vr, n) == <<tb[vr[n]].Rows, tb[vr[n]].Cols>>

\* C5 (as claimed): no step changes the row count or the column count of a
\* table, a copy-assignment included.
C5_DimsNeverChange ==
    [][\A n \in Live : Dims(tables', vars', n) = Dims(tables, vars, n)]_allVars

\* C5 (amended): the row and column counts of a table change in no step but
\* an assignment n = m, which gives n the counts of m.
C5_DimsChangeOnlyByAssign ==
    [][\A n \in Live :
          \/ Dims(tables', vars', n) = Dims(tables, vars, n)
          \/ /\ lastOp'.op = "assign"
             /\ lastOp'.tgt = n
             /\ Dims(tables', vars', n) = Dims(tables, vars, lastOp'.src)]_allVars

\* C5 witness: the last operation assigned to a table that had other
\* dimensions than it has now.
C5_Witness ==
    /\ lastOp.op = "assign"
    /\ DimsOf(lastOp.tgt) # lastOp.was
    /\ DimsOf(lastOp.tgt) = DimsOf(lastOp.src)

\* Table object t has Rows rows of Cols entries, each a live cell object.
GridOk(t) ==
    /\ Len(tables[t].Cells) = tables[t].Rows
    /\ \A r \in 1..Len(tables[t].Cells) :
          /\ Len(tables[t].Cells[r]) = tables[t].Cols
          /\ \A c \in 1..Len(tables[t].Cells[r]) :
                tables[t].Cells[r][c] # Null /\ tables[t].Cells[r][c] \in DOMAIN cells

\* C6: grid invariant.  Every table object, named or embedded, has exactly
\* Rows rows of exactly Cols entries and no entry is null; a table just
\* constructed by CTable(rows, cols) holds CEmpty in every position.
C6_GridInvariant ==
    /\ \A t \in DOMAIN tables : GridOk(t)
    /\ (lastOp.op = "CTable" /\ lastOp.res = "ok") =>
          \A c \in CellsOf(tables, vars, lastOp.tgt) : cells[c] = CEmpty

\* C6 witness: an assignment has just changed the dimensions of a table that
\* now has cells.
C6_Witness ==
    /\ lastOp.op = "assign"
    /\ lastOp.was # DimsOf(lastOp.tgt)
    /\ CellsOf(tables, vars, lastOp.tgt) # {}

\* The step is t.setCell(r, c, t): afterwards t renders, the cell (r, c) is a
\* CTableCell whose embedded table has the value t had before the call, and t
\* nests one level deeper than before.
SelfEmbedStep ==
    (lastOp'.op = "setCellTable" /\ lastOp'.tgt = lastOp'.src) =>
       /\ RenderTable(tables', cells', vars'[lastOp'.tgt]).err = "none"
       /\ cells'[tables'[vars'[lastOp'.tgt]].Cells[lastOp'.row + 1][lastOp'.col + 1]].kind
            = "CTableCell"
       /\ ValOf(tables', cells',
                cells'[tables'[vars'[lastOp'.tgt]].Cells[lastOp'.row + 1][lastOp'.col + 1]]
                   .tableContent)
            = ValOf(tables, cells, vars[lastOp'.tgt])
       /\ Depth(tables', cells', vars'[lastOp'.tgt])
            = Depth(tables, cells, vars[lastOp'.tgt]) + 1

\* C7: self-embedding terminates.  After t.setCell(r, c, t) rendering t
\* finishes and the cell holds a snapshot of t as it was before the call
\* (its previous cell (r, c) included), so each call adds exactly one level of
\* nesting.
C7_SelfEmbedding == [][SelfEmbedStep]_allVars

\* C7 witness: t.setCell(r, c, t) has just run for the second time in a row
\* on the same cell, and t nests two levels.
C7_Witness ==
    /\ lastOp.op = "setCellTable"
    /\ lastOp.tgt = lastOp.src
    /\ Depth(tables, cells, vars[lastOp.tgt]) = 2
    /\ RenderTable(tables, cells, vars[lastOp.tgt]).err = "none"

\* The step is CTable n(rows, cols): with a negative count it throws
\* std::length_error (the error the vector raises for a count that wrapped
\* around) and no object appears; otherwise n has rows rows of cols entries.
CtorStep ==
    lastOp'.op = "CTable" =>
       IF lastOp'.row < 0 \/ lastOp'.col < 0
       THEN /\ lastOp'.res = LengthError
            /\ UNCHANGED <<vars, tables, cells>>
       ELSE /\ lastOp'.res = "ok"
            /\ vars[lastOp'.tgt] = Null
            /\ vars'[lastOp'.tgt] # Null
            /\ Dims(tables', vars', lastOp'.tgt) = <<lastOp'.row, lastOp'.col>>
            /\ Len(tables'[vars'[lastOp'.tgt]].Cells) = lastOp'.row
            /\ Cardinality(CellsOf(tables', vars', lastOp'.tgt)) = lastOp'.row * lastOp'.col

\* C8: constructing a table with a negative row or column count fails and
\* creates no table; zero rows or zero columns is accepted and gives an
\* empty grid.
C8_NegativeDimsFail == [][CtorStep]_allVars

\* C8 witness: CTable n(rows, cols) with a negative count has just thrown
\* and n names no table.
C8_Witness ==
    /\ lastOp.op = "CTable"
    /\ lastOp.row < 0 \/ lastOp.col < 0
    /\ lastOp.res = LengthError
    /\ vars[lastOp.tgt] = Null

\* The call recorded by the step had its index off the grid of its table.
OffGrid == lastOp'.row >= Obj(lastOp'.tgt).Rows \/ lastOp'.col >= Obj(lastOp'.tgt).Cols

\* C9 (as claimed): getCell(row, col) with row >= Rows or col >= Cols fails
\* with IndexOutOfRange, returns no reference and leaves the table unchanged.
C9_GetCellChecked ==
    [][(lastOp'.op = "getCell" /\ OffGrid) =>
          /\ lastOp'.res = "IndexOutOfRange"
          /\ ~crashed'
          /\ UNCHANGED <<vars, tables, cells>>]_allVars

\* C10 (as claimed): setCell, in both overloads, with row >= Rows or
\* col >= Cols fails and leaves every cell of every table unchanged; with the
\* index on the grid it replaces the cell.
C10_SetCellChecked ==
    [][(lastOp'.op \in {"setCell", "setCellTable"} /\ OffGrid) =>
          /\ lastOp'.res = "IndexOutOfRange"
          /\ ~crashed'
          /\ UNCHANGED <<vars, tables, cells>>]_allVars

\* C11 (as claimed): Output(height, width) of every content returns exactly
\* height strings of exactly width characters each, whatever the sizes asked.
C11_RenderSize ==
    lastOp.op = "Output" =>
       /\ lastOp.res.err = "none"
       /\ Len(lastOp.res.val) = lastOp.height
       /\ \A i \in 1..Len(lastOp.res.val) : Len(lastOp.res.val[i]) = lastOp.width

\* The lines of a text an Output of the given height reads, and whether every
\* one of them fits the width.
UsedLines(o, height) == {i \in 1..Len(o.allLines) : i <= height}
FitsWidth(o, height, width) == \A i \in UsedLines(o, height) : Len(o.allLines[i]) <= width
AllSpaces(s) == \A k \in 1..Len(s) : s[k] = " "

\* C20: for a text and a width of at least the longest used line, Output
\* returns height lines of width characters; line i is source line i (the
\* empty line past the last source line) with the spaces after it for
\* ALIGN_LEFT and before it for ALIGN_RIGHT.
C20_TextRendering ==
    (lastOp.op = "Output" /\ lastOp.obj.kind = "CText"
       /\ FitsWidth(lastOp.obj, lastOp.height, lastOp.width)) =>
      /\ lastOp.res.err = "none"
      /\ Len(lastOp.res.val) = lastOp.height
      /\ \A i \in 1..lastOp.height :
            LET src == IF i <= Len(lastOp.obj.allLines) THEN lastOp.obj.allLines[i] ELSE <<>>
                out == lastOp.res.val[i]
                pad == lastOp.width - Len(src)
            IN  /\ Len(out) = lastOp.width
                /\ IF lastOp.obj.formatType = "ALIGN_LEFT"
                   THEN SubSeq(out, 1, Len(src)) = src /\ AllSpaces(SubSeq(out, Len(src) + 1, Len(out)))
                   ELSE SubSeq(out, pad + 1, Len(out)) = src /\ AllSpaces(SubSeq(out, 1, pad))

\* A right-aligned two-line text rendered three lines high and four wide.
C20_Witness ==
    /\ lastOp.op = "Output" /\ lastOp.obj.kind = "CText"
    /\ lastOp.obj.formatType = "ALIGN_RIGHT"
    /\ Len(lastOp.obj.allLines) = 2 /\ lastOp.height = 3 /\ lastOp.width = 4
    /\ lastOp.res.err = "none"
    /\ lastOp.res.val = <<<<" ", " ", "b", "c">>, <<" ", " ", " ", "d">>, <<" ", " ", " ", " ">>>>

\* C15: a == b on two cells is true exactly when they are of the same variant
\* and hold the same content (lines and alignment, image rows, equal embedded
\* tables); cells of different variants are never equal.
C15_ContentEquality ==
    lastOp.op = "==" =>
      /\ lastOp.res
            = (ContentVal(tables, cells, lastOp.a, Cardinality(DOMAIN tables) + 1)
                 = ContentVal(tables, cells, lastOp.b, Cardinality(DOMAIN tables) + 1))
      /\ cells[lastOp.a].kind # cells[lastOp.b].kind => ~lastOp.res

\* An empty cell compared with a text of no lines: same natural size and same
\* rendering, not equal.
C15_Witness ==
    /\ lastOp.op = "=="
    /\ cells[lastOp.a].kind = "CEmpty"
    /\ cells[lastOp.b].kind = "CText" /\ cells[lastOp.b].allLines = <<>>
    /\ WidthOf(tables, cells, lastOp.a) = WidthOf(tables, cells, lastOp.b)
    /\ HeightOf(tables, cells, lastOp.a) = HeightOf(tables, cells, lastOp.b)
    /\ OutputOf(tables, cells, lastOp.a, 1, 1) = OutputOf(tables, cells, lastOp.b, 1, 1)
    /\ ~lastOp.res

\* Reading a printed table back: its lines, the places of the '+' in a line,
\* the numbers of its border lines, and the widths and heights these give.
PlusPos(line) == SelectSeq([i \in 1..Len(line) |-> i], LAMBDA i : line[i] = "+")
BorderIdx(lines) ==
    SelectSeq([i \in 1..Len(lines) |-> i], LAMBDA i : lines[i] # <<>> /\ lines[i][1] = "+")
Gaps(p) == [k \in 1..(Len(p) - 1) |-> p[k + 1] - p[k] - 1]
ColWidthsIn(out) == Gaps(PlusPos(GetLines(out)[1]))
RowHeightsIn(out) == Gaps(BorderIdx(GetLines(out)))

\* The text `out` is the table object t printed with column widths W and row
\* heights H: a border, then per row its H[r] lines and the border again.
IsBorder(line, W) ==
    /\ Len(line) >= 1 /\ line[1] = "+" /\ line[Len(line)] = "+"
    /\ \A i \in 1..Len(line) : line[i] \in {"+", "-"}
    /\ Gaps(PlusPos(line)) = W
IsContentLine(line, t, r, v, W, H) ==
    line = <<"|">> \o Concat([c \in 1..tables[t].Cols |->
                                OutputOf(tables, cells, tables[t].Cells[r][c], H[r], W[c]).val[v]
                                  \o <<"|">>])
FollowsGrammar(out, t, W, H) ==
    LET lines == GetLines(out)
        b == BorderIdx(lines)
    IN  /\ out # <<>> /\ out[Len(out)] = NL
        /\ Len(W) = tables[t].Cols /\ Len(H) = tables[t].Rows
        /\ Len(b) = tables[t].Rows + 1
        /\ b[1] = 1 /\ b[Len(b)] = Len(lines)
        /\ \A k \in 1..Len(b) : IsBorder(lines[b[k]], W)
        /\ \A r \in 1..tables[t].Rows :
              /\ b[r + 1] - b[r] - 1 = H[r]
              /\ \A v \in 1..H[r] : IsContentLine(lines[b[r] + v], t, r, v, W, H)

\* C12: a printed table is a border line, then per row its rowHeight content
\* lines and a border line; a border is '+' and per column its dashes and '+';
\* a content line is '|' and per column the cell's Output line and '|'; every
\* line ends with a newline.
C12_RenderGrammar ==
    lastOp.op = "<<" =>
      /\ lastOp.res.err = "none"
      /\ FollowsGrammar(lastOp.res.val, vars[lastOp.tgt],
                        ColWidthsIn(lastOp.res.val), RowHeightsIn(lastOp.res.val))

\* A printed 2x2 table with rows of different heights and columns of
\* different widths.
C12_Witness ==
    /\ lastOp.op = "<<" /\ lastOp.res.err = "none"
    /\ Obj(lastOp.tgt).Rows = 2 /\ Obj(lastOp.tgt).Cols = 2
    /\ ColWidthsIn(lastOp.res.val) = <<3, 2>>
    /\ RowHeightsIn(lastOp.res.val) = <<3, 1>>

\* The last call printed a 1x1 table whose only cell is a CEmpty.
PrintedEmpty1x1 ==
    /\ lastOp.op = "<<"
    /\ Obj(lastOp.tgt).Rows = 1 /\ Obj(lastOp.tgt).Cols = 1
    /\ cells[CellAt(lastOp.tgt, 0, 0)].kind = "CEmpty"

\* C13 (as claimed): a 1x1 table whose only cell is Empty prints as a border
\* with one dash, a content line of two pipes, and the border again.
C13_EmptyTableLiteral ==
    PrintedEmpty1x1 =>
      lastOp.res = Ok(<<"+", "-", "+", NL, "|", "|", NL, "+", "-", "+", NL>>)

\* C13 (amended): a 1x1 table whose only cell is Empty prints as "++\n++\n":
\* two borders without a dash and no content line between them.
C13_EmptyTableRenders ==
    PrintedEmpty1x1 => lastOp.res = Ok(<<"+", "+", NL, "+", "+", NL>>)

C13_Witness == PrintedEmpty1x1 /\ lastOp.res.err = "none" /\ Len(lastOp.res.val) = 6

\* Row r (1-based) of table object t has no cell of a natural height above 0.
FlatRow(t, r) ==
    \A c \in 1..tables[t].Cols : HeightOf(tables, cells, tables[t].Cells[r][c]) = 0

\* C19: a row whose cells all have natural height 0 prints no content line:
\* the border above it (the r-th border line) and the border below it (the
\* next border line) are adjacent lines of the output.
C19_FlatRowNoLines ==
    (lastOp.op = "<<" /\ lastOp.res.err = "none") =>
      \A r \in 1..Obj(lastOp.tgt).Rows :
         FlatRow(vars[lastOp.tgt], r) =>
            /\ Len(BorderIdx(GetLines(lastOp.res.val))) > r
            /\ BorderIdx(GetLines(lastOp.res.val))[r + 1]
                 = BorderIdx(GetLines(lastOp.res.val))[r] + 1

\* A printed table of two rows and two columns whose second row is flat while
\* its first row is not.
C19_Witness ==
    /\ lastOp.op = "<<" /\ lastOp.res.err = "none"
    /\ Obj(lastOp.tgt).Rows = 2 /\ Obj(lastOp.tgt).Cols = 2
    /\ ~FlatRow(vars[lastOp.tgt], 1)
    /\ FlatRow(vars[lastOp.tgt], 2)
    /\ RowHeightsIn(lastOp.res.val) = <<2, 0>>

\* m is the largest member of the set of naturals S (0 when S is empty).
IsMaxOf(m, S) == (\A x \in S : x <= m) /\ (m \in S \/ (m = 0 /\ S = {}))

\* The natural widths in column c and the natural heights in row r of table t.
WidthsInCol(t, c) == {WidthOf(tables, cells, tables[t].Cells[r][c]) : r \in 1..tables[t].Rows}
HeightsInRow(t, r) == {HeightOf(tables, cells, tables[t].Cells[r][c]) : c \in 1..tables[t].Cols}

\* The printed table shows, per column, the largest natural width of the
\* column's present cells and, per row, the largest natural height of the row's.
PrintReconciled ==
    (lastOp.op = "<<" /\ lastOp.res.err = "none") =>
      /\ Len(ColWidthsIn(lastOp.res.val)) = Obj(lastOp.tgt).Cols
      /\ Len(RowHeightsIn(lastOp.res.val)) = Obj(lastOp.tgt).Rows
      /\ \A c \in 1..Obj(lastOp.tgt).Cols :
            IsMaxOf(ColWidthsIn(lastOp.res.val)[c], WidthsInCol(vars[lastOp.tgt], c))
      /\ \A r \in 1..Obj(lastOp.tgt).Rows :
            IsMaxOf(RowHeightsIn(lastOp.res.val)[r], HeightsInRow(vars[lastOp.tgt], r))

\* What printing table object t of a heap would show: its column widths and
\* its row heights.
ShownWidths(tb, ce, t) == ColWidthsIn(RenderTable(tb, ce, t).val)
ShownHeights(tb, ce, t) == RowHeightsIn(RenderTable(tb, ce, t).val)
SameBut(before, after, k) ==
    /\ Len(before) = Len(after)
    /\ \A i \in 1..Len(before) : i # k => after[i] = before[i]

\* A setCell or setText on cell (row, col) leaves the printed width of every
\* other column and the printed height of every other row as they were.
WriteStaysLocal ==
    \A n \in Names :
       (lastOp'.op \in {"setCell", "setText"} /\ lastOp'.res = "ok" /\ lastOp'.tgt = n) =>
         /\ SameBut(ShownWidths(tables, cells, vars[n]),
                    ShownWidths(tables', cells', vars'[n]), lastOp'.col + 1)
         /\ SameBut(ShownHeights(tables, cells, vars[n]),
                    ShownHeights(tables', cells', vars'[n]), lastOp'.row + 1)

\* C18: a printed table's column widths and row heights are the maxima of the
\* natural widths and heights of the cells as they are when it is printed, and
\* a write to one cell changes no other column's width and no other row's
\* height.
C18_DimensionReconciliation == []PrintReconciled /\ [][WriteStaysLocal]_allVars

\* A table printed after a setText made the text in its first row the widest
\* cell of the first column.
C18_Witness ==
    /\ lastOp.op = "<<" /\ lastOp.res.err = "none"
    /\ Obj(lastOp.tgt).Rows = 2 /\ Obj(lastOp.tgt).Cols = 2
    /\ cells[CellAt(lastOp.tgt, 0, 0)].allLines = <<<<"a", "a", "a">>>>
    /\ cells[CellAt(lastOp.tgt, 1, 0)].kind = "CText"
    /\ WidthOf(tables, cells, CellAt(lastOp.tgt, 1, 0)) = 2
    /\ ColWidthsIn(lastOp.res.val) = <<3, 1>>
    /\ RowHeightsIn(lastOp.res.val) = <<1, 2>>

\* The cells of table objects t and u agree position by position.
CellWise(t, u) ==
    \A r \in 1..tables[t].Rows : \A c \in 1..tables[t].Cols :
       CellEq(tables, cells, tables[t].Cells[r][c], tables[u].Cells[r][c],
              Cardinality(DOMAIN tables) + 1)
SameDims(t, u) == tables[t].Rows = tables[u].Rows /\ tables[t].Cols = tables[u].Cols

\* C14: for all table objects t and u, t == u is true exactly when they have
\* the same row and column counts and equal cells at every position (which is
\* when they hold the same value); t == t; tables of different dimensions are
\* not equal; and t != u is the negation of t == u.
C14_TableEquality ==
    \A t \in DOMAIN tables, u \in DOMAIN tables :
       /\ TableEq(tables, cells, t, t)
       /\ ~SameDims(t, u) => ~TableEq(tables, cells, t, u)
       /\ TableEq(tables, cells, t, u) = (SameDims(t, u) /\ CellWise(t, u))
       /\ TableEq(tables, cells, t, u) = (ValOf(tables, cells, t) = ValOf(tables, cells, u))
       /\ TableNe(tables, cells, t, u) = ~TableEq(tables, cells, t, u)

\* Two variables hold distinct, equal table objects with a text in them.
C14_Witness ==
    \E a \in Live, b \in Live :
       /\ vars[a] # vars[b]
       /\ TableEq(tables, cells, vars[a], vars[b])
       /\ \E c \in CellsOf(tables, vars, a) : cells[c].kind = "CText"
       /\ ~TableNe(tables, cells, vars[a], vars[b])

\* The table objects reached from table object t through the embedded tables
\* of cells, following at most `fuel` levels.
RECURSIVE Below(_, _)
Below(t, fuel) ==
    IF fuel = 0 THEN {}
    ELSE LET kids == {ChildTables(tables, cells, t)[k] :
                        k \in 1..Len(ChildTables(tables, cells, t))}
         IN  kids \cup UNION {Below(k, fuel - 1) : k \in kids}

\* C17: ownership is acyclic.  After any sequence of constructions, setCell
\* calls (content, cell or table, also a table into itself), copies and
\* assignments, no table object is reached from itself through its cells'
\* embedded tables.
C17_OwnershipAcyclic ==
    \A t \in DOMAIN tables : t \notin Below(t, Cardinality(DOMAIN tables))

\* A table was just stored into itself while it already held a snapshot of
\* itself: two table objects lie below it, neither is the table itself.
C17_Witness ==
    /\ lastOp.op = "setCellTable"
    /\ lastOp.tgt = lastOp.src
    /\ Cardinality(Below(vars[lastOp.tgt], Cardinality(DOMAIN tables))) = 2
    /\ vars[lastOp.tgt] \notin Below(vars[lastOp.tgt], Cardinality(DOMAIN tables))

\* The value of cell object c of a heap.
CellVal(tb, ce, c) == ContentVal(tb, ce, c, Cardinality(DOMAIN tb) + 1)

\* For every cell object c, a clone of it put next to it equals c, both ways.
CloneEqual ==
    \A c \in DOMAIN cells :
       LET id == Len(cells) + 1
           with == Append(cells, Clone(cells, c))
       IN  /\ CellEq(tables, with, id, c, Cardinality(DOMAIN tables) + 1)
           /\ CellEq(tables, with, c, id, Cardinality(DOMAIN tables) + 1)

\* After n.setCell(row, col, x) the cell at (row, col) holds what x held: the
\* temporary's fields, or the value the source cell had, which the source
\* cell still has unless it was the cell replaced.
StoredEqualsArg ==
    \A n \in Names, m \in Names :
       /\ (lastOp'.op = "setCell" /\ lastOp'.tgt = n) =>
             cells'[tables'[vars'[n]].Cells[lastOp'.row + 1][lastOp'.col + 1]] = lastOp'.arg
       /\ (lastOp'.op = "setCellFromCell" /\ lastOp'.tgt = n /\ lastOp'.src = m) =>
             /\ CellVal(tables', cells', tables'[vars'[n]].Cells[lastOp'.row + 1][lastOp'.col + 1])
                  = CellVal(tables, cells, CellAt(m, lastOp'.r2, lastOp'.c2))
             /\ CellEq(tables', cells',
                       tables'[vars'[n]].Cells[lastOp'.row + 1][lastOp'.col + 1],
                       tables'[vars'[m]].Cells[lastOp'.r2 + 1][lastOp'.c2 + 1],
                       Cardinality(DOMAIN tables') + 1)

\* A successful setText on the cell at (row, col) gives that cell the new
\* lines and leaves the value of every other cell object as it was.
SetTextLocal ==
    \A n \in Names :
       (lastOp'.op = "setText" /\ lastOp'.res = "ok" /\ lastOp'.tgt = n) =>
          /\ DOMAIN cells' = DOMAIN cells
          /\ \A c \in DOMAIN cells :
                c # CellAt(n, lastOp'.row, lastOp'.col) =>
                   CellVal(tables', cells', c) = CellVal(tables, cells, c)

\* C16: a clone of a content equals the content; after t.setCell(r, c, x) the
\* stored cell equals x; a later setText on the stored cell changes no other
\* cell, neither the source nor another clone of it.
C16_CloneRoundTrip == []CloneEqual /\ [][StoredEqualsArg /\ SetTextLocal]_allVars

\* The text of one cell was replaced in place while the other cell of the row
\* still holds the two-line text with the same alignment.
C16_Witness ==
    /\ lastOp.op = "setText" /\ lastOp.res = "ok"
    /\ Obj(lastOp.tgt).Cols = 2
    /\ cells[CellAt(lastOp.tgt, 0, lastOp.col)].allLines = <<<<"a", "a", "a">>>>
    /\ cells[CellAt(lastOp.tgt, 0, 1 - lastOp.col)].kind = "CText"
    /\ cells[CellAt(lastOp.tgt, 0, 1 - lastOp.col)].allLines = <<<<"b", "c">>, <<"d">>>>
    /\ cells[CellAt(lastOp.tgt, 0, 1 - lastOp.col)].formatType
         = cells[CellAt(lastOp.tgt, 0, lastOp.col)].formatType

\* Half of what `room` exceeds `size` by, rounded down; 0 when it does not.
CentreOffset(room, size) == IF room > size THEN (room - size) \div 2 ELSE 0

\* The character at line y, column x (both 0-based) of the canvas of the given
\* width when the rows `img` are laid on it at their centring offsets: the
\* image's character there, a space where no image row reaches.
CanvasChar(img, height, width, y, x) ==
    LET oy == CentreOffset(height, Len(img))
        ox == CentreOffset(width, IF img = <<>> THEN 0 ELSE Len(img[1]))
    IN  IF /\ y >= oy /\ y - oy < Len(img)
           /\ x >= ox /\ x - ox < Len(img[y - oy + 1])
        THEN img[y - oy + 1][x - ox + 1]
        ELSE " "

\* C21: Output(height, width) of an image is the height x width canvas with
\* the image's rows laid at vertical offset floor((height - rows)/2) and
\* horizontal offset floor((width - first row's length)/2) (0 when there is
\* no surplus); what lies beyond the right or the lower edge is cut off.
C21_ImageRendering ==
    (lastOp.op = "Output" /\ lastOp.obj.kind = "CImage") =>
      /\ lastOp.res.err = "none"
      /\ Len(lastOp.res.val) = lastOp.height
      /\ \A y \in 1..lastOp.height :
            /\ Len(lastOp.res.val[y]) = lastOp.width
            /\ \A x \in 1..lastOp.width :
                  lastOp.res.val[y][x]
                    = CanvasChar(lastOp.obj.imageData, lastOp.height, lastOp.width, y - 1, x - 1)

\* The image "x" / "yzw" on a canvas 3 high and 2 wide: the odd surplus of
\* one line is below and of one column is right of the first row, and the
\* second row is cut at the edge.
C21_Witness ==
    /\ lastOp.op = "Output" /\ lastOp.obj.kind = "CImage"
    /\ lastOp.obj.imageData = <<<<"x">>, <<"y", "z", "w">>>>
    /\ lastOp.height = 3 /\ lastOp.width = 2
    /\ lastOp.res = Ok(<<<<"x", " ">>, <<"y", "z">>, <<" ", " ">>>>)

\* The lines the embedded table of cell record o prints.
EmbeddedLines(o) == GetLines(RenderTable(tables, cells, o.tableContent).val)

\* C22: Output(height, width) of a CTableCell is the first `height` lines the
\* embedded table prints, each cut to `width` characters or followed by
\* spaces up to `width`, and lines of `width` spaces after the last of them.
C22_TableRefRendering ==
    (lastOp.op = "Output" /\ lastOp.obj.kind = "CTableCell") =>
      /\ lastOp.res.err = "none"
      /\ Len(lastOp.res.val) = lastOp.height
      /\ \A i \in 1..lastOp.height :
            /\ Len(lastOp.res.val[i]) = lastOp.width
            /\ \A x \in 1..lastOp.width :
                  lastOp.res.val[i][x]
                    = IF i <= Len(EmbeddedLines(lastOp.obj)) /\ x <= Len(EmbeddedLines(lastOp.obj)[i])
                      THEN EmbeddedLines(lastOp.obj)[i][x]
                      ELSE " "

\* The embedded empty 1x1 table ("++", "++") in a box 3 high and 4 wide: the
\* two lines at the top left, spaces right of them and a blank line below.
C22_Witness ==
    /\ lastOp.op = "Output" /\ lastOp.obj.kind = "CTableCell"
    /\ EmbeddedLines(lastOp.obj) = <<<<"+", "+">>, <<"+", "+">>>>
    /\ lastOp.height = 3 /\ lastOp.width = 4
    /\ lastOp.res = Ok(<<<<"+", "+", " ", " ">>, <<"+", "+", " ", " ">>, <<" ", " ", " ", " ">>>>)

\* Sum of the numbers f[k] + 1 for k in 1..n.
RECURSIVE SumPlusOne(_, _)
SumPlusOne(f, n) == IF n = 0 THEN 0 ELSE f[n] + 1 + SumPlusOne(f, n - 1)

\* The largest member of a finite set of naturals, 0 for the empty set.
LargestOf(S) == IF S = {} THEN 0 ELSE CHOOSE m \in S : \A x \in S : x <= m

\* C23: the natural width of a CTableCell is the longest line its embedded
\* table prints, which is 1 + the sum over the columns of (column width + 1),
\* and its natural height is the number of lines printed, which is 1 + the
\* sum over the rows of (row height + 1); also for embedded tables without
\* rows or without columns.
C23_TableRefNaturalSize ==
    (lastOp.op = "measure" /\ cells[lastOp.cell].kind = "CTableCell") =>
      LET e == cells[lastOp.cell].tableContent
          lines == EmbeddedLines(cells[lastOp.cell])
          W == [c \in 1..tables[e].Cols |-> LargestOf(WidthsInCol(e, c))]
          H == [r \in 1..tables[e].Rows |-> LargestOf(HeightsInRow(e, r))]
      IN  /\ lastOp.width = LargestOf({Len(lines[i]) : i \in 1..Len(lines)})
          /\ lastOp.width = 1 + SumPlusOne(W, tables[e].Cols)
          /\ lastOp.height = Len(lines)
          /\ lastOp.height = 1 + SumPlusOne(H, tables[e].Rows)

\* The measured cell embeds a table of two columns and no row: one line "+++".
C23_Witness ==
    /\ lastOp.op = "measure" /\ cells[lastOp.cell].kind = "CTableCell"
    /\ tables[cells[lastOp.cell].tableContent].Rows = 0
    /\ tables[cells[lastOp.cell].tableContent].Cols = 2
    /\ lastOp.width = 3 /\ lastOp.height = 1

\* C24: a table without rows prints exactly one line, '+' followed by one '+'
\* per column; a table without columns prints one line "+" per row and one
\* more.
C24_DegenerateTables ==
    lastOp.op = "<<" =>
      /\ Obj(lastOp.tgt).Rows = 0 =>
            lastOp.res = Ok([i \in 1..(Obj(lastOp.tgt).Cols + 2) |->
                               IF i = Obj(lastOp.tgt).Cols + 2 THEN NL ELSE "+"])
      /\ Obj(lastOp.tgt).Cols = 0 =>
            /\ lastOp.res.err = "none"
            /\ Len(lastOp.res.val) = 2 * (Obj(lastOp.tgt).Rows + 1)
            /\ \A i \in 1..Len(lastOp.res.val) :
                  lastOp.res.val[i] = IF i % 2 = 1 THEN "+" ELSE NL

\* A printed table of two rows and no column: "+\n+\n+\n".
C24_Witness ==
    /\ lastOp.op = "<<"
    /\ Obj(lastOp.tgt).Rows = 2 /\ Obj(lastOp.tgt).Cols = 0
    /\ lastOp.res = Ok(<<"+", NL, "+", NL, "+", NL>>)

\* C25: Output(height, width) of a text fails with std::length_error (the pad
\* count width - line.size() wrapped around) exactly when one of the first
\* `height` lines is longer than `width`, and then returns no line, cut or
\* not; a longer line at index >= height does no harm.
C25_NarrowTextFails ==
    (lastOp.op = "Output" /\ lastOp.obj.kind = "CText") =>
      /\ ~FitsWidth(lastOp.obj, lastOp.height, lastOp.width) => lastOp.res = Fail(LengthError)
      /\ FitsWidth(lastOp.obj, lastOp.height, lastOp.width) => lastOp.res.err = "none"

\* The text "d\nbc" rendered one line high and one wide: the second line is
\* longer than the width and is not read.
C25_Witness ==
    /\ lastOp.op = "Output" /\ lastOp.obj.kind = "CText"
    /\ lastOp.obj.allLines = <<<<"d">>, <<"b", "c">>>>
    /\ lastOp.height = 1 /\ lastOp.width = 1
    /\ lastOp.res = Ok(<<<<"d">>>>)

\* The sizes operator<< passes to the Output of the cells of table object t.
PassedWidths(t) ==
    MaxColWidths(tables[t], cells, EmbeddedTexts(tables, cells, t, Cardinality(DOMAIN tables) + 1))
PassedHeights(t) ==
    MaxRowHeights(tables[t], cells, EmbeddedTexts(tables, cells, t, Cardinality(DOMAIN tables) + 1))

\* Every cell of table object t is asked for an Output at least as high and
\* as wide as the cell naturally is, and its Output does not fail.
SizesSuffice(t) ==
    \A r \in 1..tables[t].Rows : \A c \in 1..tables[t].Cols :
       /\ PassedHeights(t)[r] >= HeightOf(tables, cells, tables[t].Cells[r][c])
       /\ PassedWidths(t)[c] >= WidthOf(tables, cells, tables[t].Cells[r][c])
       /\ OutputOf(tables, cells, tables[t].Cells[r][c],
                   PassedHeights(t)[r], PassedWidths(t)[c]).err = "none"

\* C26: when a table is printed, every cell of it and of the tables embedded
\* in it is rendered at a height and a width no smaller than its natural
\* ones, so no text's pad count wraps around and the printing does not fail.
C26_SizesNeverTooSmall ==
    lastOp.op = "<<" =>
      /\ lastOp.res.err = "none"
      /\ \A t \in DOMAIN tables : SizesSuffice(t)

\* A printed table in which a text of natural width 2 and height 2 shares its
\* column with a text of width 3 and its row with an embedded table.
C26_Witness ==
    /\ lastOp.op = "<<" /\ lastOp.res.err = "none"
    /\ Obj(lastOp.tgt).Rows = 2 /\ Obj(lastOp.tgt).Cols = 2
    /\ cells[CellAt(lastOp.tgt, 0, 0)].allLines = <<<<"b", "c">>, <<"d">>>>
    /\ cells[CellAt(lastOp.tgt, 1, 0)].allLines = <<<<"a", "a", "a">>>>
    /\ cells[CellAt(lastOp.tgt, 0, 1)].kind = "CTableCell"
    /\ PassedWidths(vars[lastOp.tgt])[1] = 3
    /\ PassedHeights(vars[lastOp.tgt])[1] = 3

\* C27: the printed text of a table is not empty, ends with a newline, and
\* all its lines have the same length, 1 + the sum over the columns of
\* (column width + 1); also when a cell holds an image whose later rows are
\* longer than its first, or an embedded table.
C27_RectangularOutput ==
    lastOp.op = "<<" =>
      /\ lastOp.res.err = "none"
      /\ lastOp.res.val # <<>>
      /\ lastOp.res.val[Len(lastOp.res.val)] = NL
      /\ \A i \in 1..Len(GetLines(lastOp.res.val)) :
            Len(GetLines(lastOp.res.val)[i])
              = 1 + SumPlusOne([c \in 1..Obj(lastOp.tgt).Cols |->
                                  LargestOf(WidthsInCol(vars[lastOp.tgt], c))],
                               Obj(lastOp.tgt).Cols)

\* A printed row of the image "x" / "yzw" (natural width 1) and an embedded
\* table: three lines and two borders of 1 + (1 + 1) + (3 + 1) characters.
C27_Witness ==
    /\ lastOp.op = "<<" /\ lastOp.res.err = "none"
    /\ Obj(lastOp.tgt).Rows = 1 /\ Obj(lastOp.tgt).Cols = 2
    /\ cells[CellAt(lastOp.tgt, 0, 0)].imageData = <<<<"x">>, <<"y", "z", "w">>>>
    /\ cells[CellAt(lastOp.tgt, 0, 1)].kind = "CTableCell"
    /\ Len(GetLines(lastOp.res.val)) = 5
    /\ \A i \in 1..5 : Len(GetLines(lastOp.res.val)[i]) = 7

\* The step stores a new cell at position (r, c) (1-based) of variable n: a
\* setCell there, or an assignment to n from another table.
Replaces(n, r, c) ==
    /\ lastOp'.tgt = n
    /\ \/ lastOp'.op = "assign" /\ lastOp'.src # n
       \/ /\ lastOp'.op \in {"setCell", "setCellFromCell", "setCellTable"}
          /\ lastOp'.row = r - 1 /\ lastOp'.col = c - 1

\* Every CTableCell a variable's table holds and the step does not replace
\* still is a CTableCell, and its embedded table has the value it had.
EmbeddedKept ==
    \A n \in Names :
       (vars[n] # Null /\ vars'[n] # Null) =>
          \A r \in 1..tables[vars[n]].Rows : \A c \in 1..tables[vars[n]].Cols :
             (cells[tables[vars[n]].Cells[r][c]].kind = "CTableCell" /\ ~Replaces(n, r, c)) =>
                /\ r <= tables'[vars'[n]].Rows /\ c <= tables'[vars'[n]].Cols
                /\ cells'[tables'[vars'[n]].Cells[r][c]].kind = "CTableCell"
                /\ ValOf(tables', cells', cells'[tables'[vars'[n]].Cells[r][c]].tableContent)
                     = ValOf(tables, cells, cells[tables[vars[n]].Cells[r][c]].tableContent)

\* Over a setText, the one operation that writes into an existing object in
\* place, the embedded table of every CTableCell also prints what it printed.
EmbeddedPrintKept ==
    \A n \in Names :
       (lastOp'.op = "setText" /\ vars[n] # Null /\ vars'[n] # Null) =>
          \A r \in 1..tables[vars[n]].Rows : \A c \in 1..tables[vars[n]].Cols :
             cells[tables[vars[n]].Cells[r][c]].kind = "CTableCell" =>
                RenderTable(tables', cells', cells'[tables'[vars'[n]].Cells[r][c]].tableContent)
                  = RenderTable(tables, cells, cells[tables[vars[n]].Cells[r][c]].tableContent)

\* C28: an embedded table is immutable once stored.  No step (construction,
\* copy, setCell, setText through getCell, assignment) changes the value of
\* the embedded table of a CTableCell that it does not replace, although
\* clones of a CTableCell refer to one embedded table; and a setText leaves
\* what every embedded table prints as it was.
C28_EmbeddedImmutable == [][EmbeddedKept /\ EmbeddedPrintKept]_allVars

\* A cell of one table was just replaced by setCell while a CTableCell of
\* another table and a CTableCell of this one refer to one embedded table.
C28_Witness ==
    /\ lastOp.op = "setCellFromCell"
    /\ \E a \in Live, b \in Live :
          /\ a # b /\ lastOp.tgt = a
          /\ \E c1 \in CellsOf(tables, vars, a), c2 \in CellsOf(tables, vars, b) :
                /\ cells[c1].kind = "CTableCell" /\ cells[c2].kind = "CTableCell"
                /\ cells[c1].tableContent = cells[c2].tableContent

\* The step is a setCell on variable n at (lastOp'.row, lastOp'.col).
IsSetCell(n) ==
    lastOp'.op \in {"setCell", "setCellFromCell", "setCellTable"} /\ lastOp'.tgt = n

\* A setCell on n keeps n's dimensions, the value of each of n's cells other
\* than the one written, and the value of every other variable's table.
SetCellFrame ==
    \A n \in Names :
       IsSetCell(n) =>
          /\ tables'[vars'[n]].Rows = tables[vars[n]].Rows
          /\ tables'[vars'[n]].Cols = tables[vars[n]].Cols
          /\ \A r \in 1..tables[vars[n]].Rows : \A c \in 1..tables[vars[n]].Cols :
                (r # lastOp'.row + 1 \/ c # lastOp'.col + 1) =>
                   CellVal(tables', cells', tables'[vars'[n]].Cells[r][c])
                     = CellVal(tables, cells, tables[vars[n]].Cells[r][c])
          /\ \A m \in Names \ {n} :
                /\ (vars'[m] = Null) = (vars[m] = Null)
                /\ vars[m] # Null => ValOf(tables', cells', vars'[m]) = ValOf(tables, cells, vars[m])

\* A setCell with a table argument leaves the argument as it was.
TableArgKept ==
    \A m \in Names :
       (lastOp'.op = "setCellTable" /\ lastOp'.src = m) =>
          ValOf(tables', cells', vars'[m]) = ValOf(tables, cells, vars[m])

\* A setCell with a table argument that is not the table written to leaves
\* the argument as it was; when it is the table written to, the cell written
\* holds the value the table had.
TableArgKeptUnlessSelf ==
    \A n \in Names, m \in Names :
       (lastOp'.op = "setCellTable" /\ lastOp'.tgt = n /\ lastOp'.src = m) =>
          IF m # n
          THEN ValOf(tables', cells', vars'[m]) = ValOf(tables, cells, vars[m])
          ELSE ValOf(tables', cells',
                     cells'[tables'[vars'[n]].Cells[lastOp'.row + 1][lastOp'.col + 1]].tableContent)
                 = ValOf(tables, cells, vars[n])

\* A successful setText on a cell gives it the lines of one of the texts and
\* keeps its kind and alignment, every other cell and every table's dimensions.
SetTextFrame ==
    \A n \in Names :
       (lastOp'.op = "setText" /\ lastOp'.res = "ok" /\ lastOp'.tgt = n) =>
          /\ cells'[tables'[vars'[n]].Cells[lastOp'.row + 1][lastOp'.col + 1]].kind = "CText"
          /\ cells'[tables'[vars'[n]].Cells[lastOp'.row + 1][lastOp'.col + 1]].formatType
               = cells[CellAt(n, lastOp'.row, lastOp'.col)].formatType
          /\ \E text \in Texts :
                cells'[tables'[vars'[n]].Cells[lastOp'.row + 1][lastOp'.col + 1]].allLines
                  = GetLines(text)
          /\ \A c \in DOMAIN cells :
                c # CellAt(n, lastOp'.row, lastOp'.col) => cells'[c] = cells[c]
          /\ tables' = tables

\* C29 (as claimed): setCell(row, col, x) changes only the cell at (row, col);
\* the other cells, the dimensions, every other table and the argument x are
\* as before, whatever x is; setText replaces the lines and keeps the
\* alignment.
C29_SetCellFrameAnyArg == [][SetCellFrame /\ TableArgKept /\ SetTextFrame]_allVars

\* C29 (amended): as above, with the argument x as before unless x is the
\* table written to, whose cell (row, col) then holds the value x had.
C29_SetCellFrame == [][SetCellFrame /\ TableArgKeptUnlessSelf /\ SetTextFrame]_allVars

\* A table was just stored into a cell of another table whose other cell
\* holds a text.
C29_Witness ==
    /\ lastOp.op = "setCellTable" /\ lastOp.tgt # lastOp.src
    /\ Obj(lastOp.tgt).Rows = 1 /\ Obj(lastOp.tgt).Cols = 2
    /\ cells[CellAt(lastOp.tgt, 0, lastOp.col)].kind = "CTableCell"
    /\ cells[CellAt(lastOp.tgt, 0, 1 - lastOp.col)].kind = "CText"

\* Any two table objects that operator== finds equal print the same text.
EqualPrintAlike ==
    \A t \in DOMAIN tables : \A u \in DOMAIN tables :
       (t < u /\ (TableEq(tables, cells, t, u) \/ TableEq(tables, cells, u, t))) =>
          RenderTable(tables, cells, t) = RenderTable(tables, cells, u)

\* While nothing has been written since  oss << n, printing n again gives the
\* text that was printed.
PrintRepeats ==
    \A n \in Names :
       (lastOp.op = "<<" /\ lastOp.tgt = n) => RenderTable(tables, cells, vars[n]) = lastOp.res

\* oss << n  leaves every variable and every object as it was, and with them
\* what n == m and m == n yield for every table m.
PrintWritesNothing ==
    \A n \in Names :
       (lastOp'.op = "<<" /\ lastOp'.tgt = n) =>
          /\ vars' = vars /\ tables' = tables /\ cells' = cells
          /\ \A m \in Live :
                /\ TableEq(tables', cells', vars'[n], vars'[m]) = TableEq(tables, cells, vars[n], vars[m])
                /\ TableEq(tables', cells', vars'[m], vars'[n]) = TableEq(tables, cells, vars[m], vars[n])

\* C30: tables that compare equal with operator== print identical text,
\* printing a table twice with nothing written in between prints identical
\* text, and printing changes neither the table nor its equality with other
\* tables.
C30_RenderingOfContent ==
    /\ [](EqualPrintAlike /\ PrintRepeats)
    /\ [][PrintWritesNothing]_allVars

\* A table holding a text was just printed while another variable holds a
\* distinct, equal table object.
C30_Witness ==
    /\ lastOp.op = "<<"
    /\ lastOp.res.err = "none"
    /\ \E m \in Live \ {lastOp.tgt} :
          /\ vars[m] # vars[lastOp.tgt]
          /\ TableEq(tables, cells, vars[lastOp.tgt], vars[m])
    /\ Obj(lastOp.tgt).Rows >= 1 /\ Obj(lastOp.tgt).Cols >= 1
    /\ cells[CellAt(lastOp.tgt, 0, 0)].kind = "CText"

====
